---- MODULE Spec2Model ----
(***************************************************************************)
(* A model of x/mongo/driver/topology/connection.go: one connection, its   *)
(* connect / close / readWireMessage / writeWireMessage state machine, the *)
(* cancellation listener that races each wire read and write, and the wire *)
(* framing (size prefix parsing, partial reads).                           *)
(*                                                                         *)
(* connect, readWireMessage and writeWireMessage block on the network, so  *)
(* each is a sequence of steps separated at its blocking calls; close and  *)
(* the deferred error handler of connect do not block and are one step.    *)
(***************************************************************************)
EXTENDS Integers, Sequences, FiniteSets, TLC

\* ------------------------------------------------------------------ bounds

\* Number of tasks that call connect on the connection.
NumConnectCallers == 2

\* Tasks that wait for the connect to finish.
NumWaiters == 2

\* Cap on the socket Close invocations recorded (reached only by faulty code).
MaxSockCloses == 3

\* Number of tasks that call operations of the Connection handle.
NumHandleTasks == 2

\* Number of pin calls made on the handle.
MaxPinCalls == 3

\* --------------------------------------------------------------- constants

connDisconnected == 0
connConnected == 1
connInitialized == 2

defaultMaxMessageSize == 48000000

NIL == "nil"

\* A *int32 field: the empty set when nil, else the singleton of its value.
NilPtr == {}
PtrTo(v) == {v}

ConnectCallers == 1..NumConnectCallers

\* A negotiated (non-default) maximum message size used by the server
\* descriptions below.
NegotiatedMaxMessageSize == 100

\* Values of the 4-byte little-endian size prefix. An unsigned 32-bit value u
\* is written [hi, lo] with u = hi * 2^31 + lo: hi is its top bit and lo its
\* low 31 bits.
MaxLow31 == 2147483647

RawSizes ==
    [hi : {0},
     lo : {0, 3, 4, 5, 100, NegotiatedMaxMessageSize,
           NegotiatedMaxMessageSize + 1, defaultMaxMessageSize,
           defaultMaxMessageSize + 1, MaxLow31}]
    \cup [hi : {1}, lo : {0, 5, MaxLow31}]

\* See PartialCounts.
OutstandingMany == 96

\* Generation numbers config.getGenerationFn can return.
Generations == {1}

\* wiremessage.DefaultZlibLevel and wiremessage.DefaultZstdLevel.
DefaultZlibLevel == 6
DefaultZstdLevel == 6

\* Compressor name lists a client can configure (ClientOptions.SetCompressors
\* stores the list as given) and lists a server can advertise.
ClientCompressorLists ==
    {<<>>, <<"zstd", "zlib", "snappy">>, <<"snappy", "zstd">>, <<"zlib">>,
     <<"lz4", "zlib">>, <<"ZLIB", "snappy">>}

ServerCompressorLists ==
    {<<>>, <<"zlib", "snappy">>, <<"snappy", "zlib", "zstd">>, <<"zstd">>,
     <<"lz4", "zlib">>, <<"ZLIB">>}

\* The compressor lists a server advertises to a client: a server answers the
\* list the client sent in its hello, so a client that configured none is
\* advertised none.
AdvertisedLists(cfg) ==
    IF cfg.compressors = <<>> THEN {<<>>} ELSE ServerCompressorLists

\* Server descriptions a handshaker can report to a connection configured
\* with cfg.
DescChoices(cfg) ==
    [MaxMessageSize : {0, NegotiatedMaxMessageSize}, ServiceID : BOOLEAN,
     Compression : AdvertisedLists(cfg)]

\* The connection ids a server reports in its hello reply
\* (HandshakeInformation.ServerConnectionID).
ServerConnectionIDs == {PtrTo(1)}

\* description.Server{} : the zero value.
EmptyDesc == [MaxMessageSize |-> 0, ServiceID |-> FALSE, Compression |-> <<>>]

\* Connection configurations (connectionConfig): which optional parts are set.
\* tlsConfig and tlcpConfig come from ClientOptions.SetTLSConfig and
\* SetTLCPConfig, which store what they are given; Validate checks neither.
\* insecureSkipVerify is tlsConfig.InsecureSkipVerify.
Configs ==
    [tlsConfig : BOOLEAN, tlcpConfig : BOOLEAN, handshaker : BOOLEAN,
     loadBalanced : BOOLEAN, insecureSkipVerify : {FALSE},
     compressors : {<<>>}, zlibLevel : {NilPtr}, zstdLevel : {NilPtr}]

\* Configurations with compression: plain transport, a handshaker, and every
\* compressor list with and without level overrides.
CompressorConfigs ==
    [tlsConfig : {FALSE}, tlcpConfig : {FALSE}, handshaker : {TRUE},
     loadBalanced : {FALSE}, insecureSkipVerify : {FALSE},
     compressors : ClientCompressorLists,
     zlibLevel : {NilPtr, PtrTo(9)}, zstdLevel : {NilPtr, PtrTo(20)}]

\* Configurations of the transport and the handshake: every combination of
\* the two secure transports, certificate verification on and off (a field
\* of the TLS configuration), a handshaker, and a compressor to select.
TransportConfigs ==
    { c \in [tlsConfig : BOOLEAN, tlcpConfig : BOOLEAN, handshaker : BOOLEAN,
             loadBalanced : BOOLEAN, insecureSkipVerify : BOOLEAN,
             compressors : {<<>>, <<"zlib">>}, zlibLevel : {NilPtr},
             zstdLevel : {NilPtr}] :
        c.insecureSkipVerify => c.tlsConfig }

\* Errors of a socket read or write: a net.Error with Timeout() true, or any
\* other error (io.EOF, io.ErrUnexpectedEOF, use of closed connection, ...).
IOErrors == {"timeout", "EOF"}

\* Tasks that call operations of one Connection handle.
HandleTasks == 1..NumHandleTasks

\* The reasons a handle is pinned for.
Reasons == {"cursor", "transaction"}

\* Bytes in the longest body of a wire message given to CompressWireMessage.
MaxBodyLen == 2

\* Wire messages: the 16-byte header (total length, request id, response-to,
\* opcode) and the body that follows it.
Bodies == UNION {[1..k -> {0, 1}] : k \in 0..MaxBodyLen}

WireMessages ==
    {[short |-> FALSE, length |-> 16 + Len(b), requestID |-> 7,
      responseTo |-> 3, opcode |-> o, body |-> b] :
        o \in {"OP_MSG", "OP_QUERY"}, b \in Bodies}

\* A slice of fewer than 16 bytes: no header can be read from it.
ShortMessage ==
    [short |-> TRUE, length |-> 12, requestID |-> 7, responseTo |-> 3,
     opcode |-> "none", body |-> <<>>]

\* Bytes already in the dst slice given to CompressWireMessage.
DstLens == {0, 3}

\* No message.
NoMessage == [short |-> TRUE]

\* No failed connect has closed connectDone.
NoDoneSignal == [state |-> connInitialized, sockOpen |-> FALSE]

\* Tasks that call wait, and none of them has called it.
Waiters == 1..NumWaiters

NoWaiters == [w \in Waiters |-> "idle"]

\* No call of CompressWireMessage has been made.
NoWireMessage == [pc |-> "idle"]

\* No pool has been created.
NoPool == [pc |-> "none"]

\* Callers that check connections out of the pool.
NumPoolCallers == 2

PoolCallers == 1..NumPoolCallers

\* Physical connections a pool creates at most in a run.
MaxPhysical == 3

\* Maximum pool sizes (SetMaxPoolSize): 0 means that the size is not
\* limited.
MaxPoolSizes == {0, 1, 2}

\* Arguments of one MergeClientOptions call, at most.
MaxMergeArgs == 2

\* The fields of ClientOptions that are modelled; every other field is nil
\* in every option value. A field holds NilPtr (nil: not set) or PtrTo(v);
\* Hosts is a slice, nil or not.
ExportedFields ==
    {"Direct", "Hosts", "HTTPClient", "LoadBalanced", "ReplicaSet"}

OptionFields == ExportedFields \cup {"connString", "err"}

\* &ClientOptions{}
ZeroOptions == [f \in OptionFields |-> NilPtr]

\* Option values a caller builds with SetDirect, SetHosts, SetLoadBalanced
\* and SetReplicaSet; with ApplyURI on a URI that does not parse (err is
\* set); and with ApplyURI on an SRV URI.
OptionValues ==
    {[ZeroOptions EXCEPT !.Direct = d, !.Hosts = h, !.LoadBalanced = lb,
                         !.ReplicaSet = rs] :
        d \in {NilPtr, PtrTo(TRUE), PtrTo(FALSE)},
        h \in {NilPtr, PtrTo(<<"a:27017", "b:27017">>)},
        lb \in {NilPtr, PtrTo(TRUE), PtrTo(FALSE)},
        rs \in {NilPtr, PtrTo("rs0")}}
    \cup {[ZeroOptions EXCEPT !.err = PtrTo(e)] : e \in {"uriErr1", "uriErr2"}}
    \cup {[ZeroOptions EXCEPT !.connString = PtrTo("mongodb+srv"),
                              !.Hosts = PtrTo(<<"a:27017">>), !.Direct = d] :
             d \in {NilPtr, PtrTo(TRUE)}}

\* The arguments of MergeClientOptions: each is nil or points to options.
MergeArgLists ==
    UNION {[1..k -> {NilPtr} \cup {PtrTo(o) : o \in OptionValues}] :
              k \in 0..MaxMergeArgs}

\* A connection and transport with nothing optional configured.
PlainConfig ==
    [tlsConfig |-> FALSE, tlcpConfig |-> FALSE, handshaker |-> FALSE,
     loadBalanced |-> FALSE, insecureSkipVerify |-> FALSE,
     compressors |-> <<>>, zlibLevel |-> NilPtr, zstdLevel |-> NilPtr]

\* No handle operation has returned yet.
NoCall == [name |-> "none", ret |-> "none"]

\* The pool's callbacks pinConnectionToCursor, pinConnectionToTransaction,
\* unpinConnectionFromCursor and unpinConnectionFromTransaction: how often
\* each has been invoked.
NoPoolCalls ==
    [pin |-> [r \in Reasons |-> 0], unpin |-> [r \in Reasons |-> 0]]

VARIABLES
    config,               \* c.config
    state,                \* c.state
    nc,                   \* c.nc: "nil", "raw", "tls" or "tlcp"
    sockDialed,           \* the dialer has produced a socket
    sockDeadline,         \* the socket's read and write deadlines
    ncCloseCount,         \* number of Close invocations on the socket
    desc,                 \* c.desc
    serverConnectionID,   \* c.serverConnectionID: NilPtr or PtrTo(id)
    generation,           \* c.generation
    genCalls,             \* invocations of config.getGenerationFn
    genArg,               \* the argument of the last such invocation
    compressor,           \* c.compressor
    zliblevel,            \* c.zliblevel
    zstdLevel,            \* c.zstdLevel
    awaitRemainingBytes,  \* c.awaitRemainingBytes: NilPtr or PtrTo(n)
    connectDone,          \* c.connectDone is closed
    atDoneSignal,         \* the connection as it was when a failed connect
                          \* closed c.connectDone
    cpc,                  \* per connect caller: position in connect
    connectRet,           \* what the connect call that won returned
    loserRet,             \* what a connect call that lost returned
    casWins,              \* connect calls that won the compare-and-swap
    dialCount,            \* invocations of dialer.DialContext
    secureHandshakes,     \* TLS and TLCP handshakes performed on the socket
    ocspCalls,            \* invocations of ocsp.Verify
    helloCalls,           \* invocations of handshaker.GetHandshakeInformation
    finishCalls,          \* invocations of handshaker.FinishHandshake
    op,                   \* the wire read or write in flight
    lst,                  \* c.cancellationListener: "idle", "listening", "fired"
    aborted,              \* the listener's aborted flag
    ctxCancelled,         \* the wire call in flight has its context cancelled
    closeTransitions,     \* close calls that won Connected -> Disconnected
    closeSockCloses,      \* socket Close attempts made by close
    closeLoserRet,        \* what a close call that lost the swap returned
    \* The Connection handle (lines 678-690) that wraps the connection once
    \* the pool has checked it out.
    hConnection,          \* Connection.connection is not nil
    refCount,             \* Connection.refCount
    cleanupPoolFn,        \* Connection.cleanupPoolFn: "nil", or the reason
                          \* whose unpin callback of the pool it holds
    cleanupServerFn,      \* Connection.cleanupServerFn is not nil
    hpc,                  \* per task: the handle operation it is inside
    hlast,                \* the handle operation that returned last
    poolCalls,            \* invocations of the pool's pin / unpin callbacks
    pinsBy,               \* per reason: units of refCount it contributed
    checkIns,             \* invocations of pool.checkIn by the handle
    serverCleanups,       \* invocations of cleanupServerFn
    pinCalls,             \* pin calls made on the handle
    panicked,             \* a handle operation dereferenced a nil pointer
    \* One call of Connection.CompressWireMessage and the receiver's
    \* decompression of what it returned.
    wm,
    \* The connection pool of one server.
    pool,
    \* Client configuration: the arguments of MergeClientOptions, what it
    \* returned, and what Validate returned for that.
    mergeArgs,
    merged,
    validateRet,
    \* Per waiter: its position in connection.wait.
    waitPc

connVars == <<state, nc, sockDialed, ncCloseCount, sockDeadline>>
closeGhost == <<closeTransitions, closeSockCloses, closeLoserRet>>
connectVars ==
    <<cpc, connectRet, loserRet, casWins, dialCount, connectDone,
      atDoneSignal, secureHandshakes, ocspCalls, helloCalls, finishCalls>>
listenerVars == <<lst, aborted, ctxCancelled>>
descVars == <<desc, serverConnectionID, generation, genCalls, genArg>>
compVars == <<compressor, zliblevel, zstdLevel>>
handleVars ==
    <<hConnection, refCount, cleanupPoolFn, cleanupServerFn, hpc, hlast,
      poolCalls, pinsBy, checkIns, serverCleanups, pinCalls, panicked>>

optionVars == <<mergeArgs, merged, validateRet>>
otherVars == <<wm, pool, optionVars, waitPc>>

vars ==
    <<config, connVars, descVars, compVars, awaitRemainingBytes, connectVars,
      op, listenerVars, closeGhost, handleVars, otherVars>>

\* ----------------------------------------------------------- pure helpers

\* int32(binary.LittleEndian.Uint32(b)): the signed reading of the prefix.
Int32(u) == IF u.hi = 1 THEN (u.lo - MaxLow31) - 1 ELSE u.lo

\* parseWmSizeBytes: the size, or the error, for a prefix value.
parseWmSizeBytesRejectsMax(raw, maxMessageSizeField) ==
    LET size == Int32(raw)
        maxMessageSize ==
            IF maxMessageSizeField = 0 THEN defaultMaxMessageSize
            ELSE maxMessageSizeField
    IN  IF size < 4 THEN [size |-> 0, err |-> "malformed"]
        ELSE IF size >= maxMessageSize THEN [size |-> 0, err |-> "tooLarge"]
        ELSE [size |-> size, err |-> NIL]

parseWmSizeBytesNoLowerBound(raw, maxMessageSizeField) ==
    LET size == Int32(raw)
        maxMessageSize ==
            IF maxMessageSizeField = 0 THEN defaultMaxMessageSize
            ELSE maxMessageSizeField
    IN  IF size > maxMessageSize THEN [size |-> 0, err |-> "tooLarge"]
        ELSE [size |-> size, err |-> NIL]

parseWmSizeBytes(raw, maxMessageSizeField) ==
    LET size == Int32(raw)
        maxMessageSize ==
            IF maxMessageSizeField = 0 THEN defaultMaxMessageSize
            ELSE maxMessageSizeField
    IN  IF size < 4 THEN [size |-> 0, err |-> "malformed"]
        \* uint32(size) = size here, because size >= 4
        ELSE IF size > maxMessageSize THEN [size |-> 0, err |-> "tooLarge"]
        ELSE [size |-> size, err |-> NIL]

\* isCSOTTimeout
isCSOTTimeout(err) == err = "timeout"

\* transformNetworkError, lines 377-400. cancelled is
\* errors.Is(ctx.Err(), context.Canceled).
transformDeadlineFirst(cancelled, originalError, contextDeadlineUsed) ==
    IF originalError = NIL THEN NIL
    ELSE IF contextDeadlineUsed /\ originalError = "timeout"
    THEN "DeadlineExceeded"
    ELSE IF cancelled THEN "Canceled"
    ELSE originalError

transformNetworkError(cancelled, originalError, contextDeadlineUsed) ==
    IF originalError = NIL THEN NIL
    ELSE IF cancelled THEN "Canceled"
    ELSE IF ~contextDeadlineUsed THEN originalError
    ELSE IF originalError = "timeout" THEN "DeadlineExceeded"
    ELSE originalError

\* connect, line 207: the compare-and-swap Initialized -> Connected succeeds.
ConnectCASAlways(s) == TRUE

ConnectCASNotDisconnected(s) == s # connDisconnected

ConnectCAS(s) == s = connInitialized

\* connect, lines 216-224: the state the deferred error handler leaves.
ConnectErrorStateKept(err, s) == s

ConnectErrorState(err, s) == IF err # NIL THEN connDisconnected ELSE s

\* close, line 561: the compare-and-swap Connected -> Disconnected succeeds.
CloseCASNotDisconnected(s) == s # connDisconnected

CloseCASAlways(s) == TRUE

CloseCAS(s) == s = connConnected

\* writeWireMessage line 404, readWireMessage line 448: the call is rejected.
WireCallRejectedOnlyDisconnected(s) == s = connDisconnected

WireCallRejected(s) == s # connConnected

\* writeWireMessage, lines 417-418: a failed write closes the connection.
WriteFailureClosesNever(err) == FALSE

WriteFailureCloses(err) == err # NIL

\* readWireMessage, lines 461-466: a failed read closes the connection.
ReadFailureClosesOnlyEOF(err, marker) == err = "EOF" /\ marker = NilPtr

ReadFailureCloses(err, marker) == err # NIL /\ marker = NilPtr

\* read, line 528: a failed read of the size prefix that consumed n bytes
\* sets the marker, to l = int32(n).
HeaderMarksAnyCount(n, err) == isCSOTTimeout(err)

HeaderMarks(n, err) == n = 0 /\ isCSOTTimeout(err)

\* read, line 545: a failed read of the body sets the marker.
BodyMarksAnyError(remainingBytes, err) == remainingBytes > 0

BodyMarks(remainingBytes, err) == remainingBytes > 0 /\ isCSOTTimeout(err)

\* read, line 543: the bytes of the body still outstanding.
RemainingBytesWithPrefix(size, n) == size - n

RemainingBytes(size, n) == size - 4 - n

\* write lines 437-439, read lines 505-508: the error after StopListening.
\* In the record of a call, ioErr is the error of the socket calls and of the
\* size check, and ret the cause the call returns; the sizes, byte counts and
\* deadline of a call are dropped from its record when it returns.
StopListeningNoOverride(wasAborted, err) == err

StopListeningOverride(wasAborted, err) ==
    IF wasAborted /\ err = NIL THEN "Canceled" ELSE err

\* connect, line 309: load-balanced mode is configured and the handshake
\* response carries no service id.
LoadBalancedMismatchNever(cfg, d) == FALSE

LoadBalancedMismatch(cfg, d) == cfg.loadBalanced /\ ~d.ServiceID

\* connect, line 315: the generation number is set after the hello.
SetsGenerationAfterHelloAlways(cfg) == TRUE

SetsGenerationAfterHello(cfg) == cfg.loadBalanced

\* The argument setGenerationNumber (line 120) hands to getGenerationFn:
\* c.desc.ServiceID.
ServiceIDArg(d) == IF d.ServiceID THEN "serviceID" ELSE NIL

\* The value a non-nil pointer points to.
Deref(ptr) == CHOOSE v \in ptr : TRUE

\* strings.ToLower, on the compressor names of the lists above.
ToLower(m) == IF m = "ZLIB" THEN "zlib" ELSE m

\* connect, lines 337-352: the switch on the matched method.
CompressorFor(method, cfg, cur) ==
    LET m == ToLower(method)
    IN  IF m = "snappy" THEN [cur EXCEPT !.compressor = "snappy"]
        ELSE IF m = "zlib"
        THEN [cur EXCEPT !.compressor = "zlib",
                         !.zliblevel = IF cfg.zlibLevel # NilPtr
                                       THEN Deref(cfg.zlibLevel)
                                       ELSE DefaultZlibLevel]
        ELSE IF m = "zstd"
        THEN [cur EXCEPT !.compressor = "zstd",
                         !.zstdLevel = IF cfg.zstdLevel # NilPtr
                                       THEN Deref(cfg.zstdLevel)
                                       ELSE DefaultZstdLevel]
        ELSE cur

\* connect, lines 331-354: the loops over outer, from its i-th entry, and
\* inner; the first entry of outer that equals an entry of inner is applied
\* and ends both loops.
RECURSIVE SelectFromSkipsUnknown(_, _, _, _, _)
SelectFromSkipsUnknown(i, outer, inner, cfg, cur) ==
    IF i > Len(outer) THEN cur
    ELSE IF /\ \E j \in 1..Len(inner) : outer[i] = inner[j]
            /\ ToLower(outer[i]) \in {"snappy", "zlib", "zstd"}
    THEN CompressorFor(outer[i], cfg, cur)
    ELSE SelectFromSkipsUnknown(i + 1, outer, inner, cfg, cur)

RECURSIVE SelectFrom(_, _, _, _, _)
SelectFrom(i, outer, inner, cfg, cur) ==
    IF i > Len(outer) THEN cur
    ELSE IF \E j \in 1..Len(inner) : outer[i] = inner[j]
    THEN CompressorFor(outer[i], cfg, cur)
    ELSE SelectFrom(i + 1, outer, inner, cfg, cur)

\* connect, lines 330-357: the compressor and levels after the selection,
\* cur being those before it.
SelectCompressorServerOrder(cfg, d, cur) ==
    IF Len(d.Compression) > 0
    THEN SelectFrom(1, d.Compression, cfg.compressors, cfg, cur)
    ELSE cur

SelectCompressor(cfg, d, cur) ==
    IF Len(d.Compression) > 0
    THEN SelectFrom(1, cfg.compressors, d.Compression, cfg, cur)
    ELSE cur

\* The codec, driver.CompressPayload and driver.DecompressPayload: lossless,
\* and what it emits depends on the level for zlib and zstd.
Reverse(b) == [i \in 1..Len(b) |-> b[Len(b) + 1 - i]]

CompressPayload(rem, opts) ==
    <<IF opts.Compressor = "zlib" THEN opts.ZlibLevel
      ELSE IF opts.Compressor = "zstd" THEN opts.ZstdLevel
      ELSE 0>> \o Reverse(rem)

DecompressPayload(compressed, compressorID) == Reverse(Tail(compressed))

\* CompressWireMessage, line 749: bsoncore.UpdateLength(dst, idx,
\* int32(len(dst[idx:]))) writes, into the length field of the header that
\* starts at idx, the number of bytes from idx to the end of dst (total).
UpdateLengthOfSlice(total, idx) == total

UpdateLength(total, idx) == total - idx

\* CompressWireMessage, lines 728-749: what it returns for src and a dst
\* that holds dstLen bytes, on the connection c; codecFails says that
\* CompressPayload returns an error. kept is the number of bytes of dst
\* that start the result and len the length of the result; the envelope is
\* appended to dst at idx: a 16-byte header, the original opcode (4 bytes),
\* the uncompressed size (4), the compressor id (1) and the compressed
\* payload.
CompressedWireMessageSameOpcode(src, dstLen, c, codecFails) ==
    IF c.compressor = "noop"
    THEN [err |-> NIL, kept |-> dstLen, len |-> dstLen + src.length,
          message |-> src]
    ELSE IF src.short
    THEN [err |-> "tooShort", kept |-> dstLen, len |-> dstLen,
          message |-> NoMessage]
    ELSE IF codecFails
    THEN [err |-> "compress", kept |-> 0, len |-> 0, message |-> NoMessage]
    ELSE LET compressed ==
                 CompressPayload(src.body, [Compressor |-> c.compressor,
                                            ZlibLevel |-> c.zliblevel,
                                            ZstdLevel |-> c.zstdLevel])
             idx == dstLen
             total == dstLen + 16 + 4 + 4 + 1 + Len(compressed)
         IN  [err |-> NIL, kept |-> dstLen, len |-> total,
              message |->
                  [short |-> FALSE, length |-> UpdateLength(total, idx),
                   requestID |-> src.requestID,
                   responseTo |-> src.responseTo,
                   opcode |-> "OP_COMPRESSED",
                   originalOpcode |-> "OP_COMPRESSED",
                   uncompressedSize |-> Len(src.body),
                   compressorID |-> c.compressor,
                   compressed |-> compressed]]

CompressedWireMessage(src, dstLen, c, codecFails) ==
    IF c.compressor = "noop"
    THEN [err |-> NIL, kept |-> dstLen, len |-> dstLen + src.length,
          message |-> src]
    ELSE IF src.short
    THEN [err |-> "tooShort", kept |-> dstLen, len |-> dstLen,
          message |-> NoMessage]
    ELSE IF codecFails
    THEN [err |-> "compress", kept |-> 0, len |-> 0, message |-> NoMessage]
    ELSE LET compressed ==
                 CompressPayload(src.body, [Compressor |-> c.compressor,
                                            ZlibLevel |-> c.zliblevel,
                                            ZstdLevel |-> c.zstdLevel])
             idx == dstLen
             total == dstLen + 16 + 4 + 4 + 1 + Len(compressed)
         IN  [err |-> NIL, kept |-> dstLen, len |-> total,
              message |->
                  [short |-> FALSE, length |-> UpdateLength(total, idx),
                   requestID |-> src.requestID,
                   responseTo |-> src.responseTo,
                   opcode |-> "OP_COMPRESSED",
                   originalOpcode |-> src.opcode,
                   uncompressedSize |-> Len(src.body),
                   compressorID |-> c.compressor,
                   compressed |-> compressed]]

\* The receiver of a wire message: a compressed envelope is replaced by the
\* message it wraps, with the original opcode and the length of the
\* uncompressed message in its header; any other message is left as it is.
DecompressWireMessage(m) ==
    IF m.opcode # "OP_COMPRESSED" THEN m
    ELSE [short |-> FALSE, length |-> 16 + m.uncompressedSize,
          requestID |-> m.requestID, responseTo |-> m.responseTo,
          opcode |-> m.originalOpcode,
          body |-> DecompressPayload(m.compressed, m.compressorID)]

\* No compressor has been selected.
NoCompressor == [compressor |-> "noop", zliblevel |-> 0, zstdLevel |-> 0]

\* Every compressor and level that connect can select.
Negotiable ==
    UNION {{SelectCompressor(cfg, d, NoCompressor) : d \in DescChoices(cfg)} :
              cfg \in CompressorConfigs}

\* Client, lines 314-319.
Client == [ZeroOptions EXCEPT !.HTTPClient = PtrTo("DefaultHTTPClient")]

\* reflect.Value.IsZero of a field: a nil pointer, a nil slice.
IsZero(v) == v = NilPtr

\* MergeClientOptions, lines 1317-1337: one argument merged into c. An
\* exported field is copied when it is not zero; err and connString are
\* copied when they are not nil.
MergeOneFirstWins(c, opt) ==
    [f \in OptionFields |-> IF IsZero(c[f]) THEN opt[f] ELSE c[f]]

MergeOne(c, opt) ==
    [f \in OptionFields |-> IF ~IsZero(opt[f]) THEN opt[f] ELSE c[f]]

\* MergeClientOptions, lines 1314-1338: the loop over the arguments, from
\* the i-th; nil arguments are skipped.
RECURSIVE MergeFrom(_, _, _)
MergeFrom(i, opts, c) ==
    IF i > Len(opts) THEN c
    ELSE IF opts[i] = NilPtr THEN MergeFrom(i + 1, opts, c)
    ELSE MergeFrom(i + 1, opts, MergeOne(c, Deref(opts[i])))

\* MergeClientOptions, lines 1305-1341: a single argument is returned as it
\* is, or Client() when it is nil.
MergeClientOptions(opts) ==
    IF Len(opts) = 1
    THEN IF opts[1] = NilPtr THEN Client ELSE Deref(opts[1])
    ELSE MergeFrom(1, opts, Client)

\* len(c.Hosts)
HostCount(c) == IF c.Hosts = NilPtr THEN 0 ELSE Len(Deref(c.Hosts))

\* Validate, line 578: load-balanced mode rejects a direct connection.
LoadBalancedRejectsDirectAnyValue(direct) == direct # NilPtr

LoadBalancedRejectsDirect(direct) == direct # NilPtr /\ Deref(direct)

\* Validate, lines 536-640: the error it returns. The checks of the heartbeat
\* interval, the pool sizes, the server API, srvMaxHosts, the monitoring
\* mode, the timeout and OIDC read fields that are nil here and pass.
Validate(c) ==
    IF c.err # NilPtr THEN Deref(c.err)
    ELSE IF /\ c.Direct # NilPtr /\ Deref(c.Direct)
            /\ HostCount(c) > 1
    THEN "directWithMultipleHosts"
    ELSE IF /\ c.Direct # NilPtr /\ Deref(c.Direct)
            /\ c.connString # NilPtr /\ Deref(c.connString) = "mongodb+srv"
    THEN "directWithSRV"
    ELSE IF c.LoadBalanced # NilPtr /\ Deref(c.LoadBalanced)
    THEN IF HostCount(c) > 1 THEN "ErrLoadBalancedWithMultipleHosts"
         ELSE IF c.ReplicaSet # NilPtr THEN "ErrLoadBalancedWithReplicaSet"
         ELSE IF LoadBalancedRejectsDirect(c.Direct)
         THEN "ErrLoadBalancedWithDirectConnection"
         ELSE NIL
    ELSE NIL

\* The pool: connections checked out, and checked out or idle.
PoolCheckedOut(p) == {p.out[c] : c \in PoolCallers} \ {0}

PoolTotal(p) == Cardinality(PoolCheckedOut(p)) + Cardinality(p.idle)

\* The pool may create a connection: its size is not limited, or it holds
\* fewer connections than the maximum.
PoolHasRoomAlways(p) == TRUE

PoolHasRoom(p) == p.max = 0 \/ PoolTotal(p) < p.max

\* Connection.Close, line 767: the call returns without releasing.
CloseIsNoOpOnlyReleased(conn, count) == ~conn

CloseIsNoOp(conn, count) == ~conn \/ count > 0

\* Connection.unpin, line 894: the call fails because nothing is pinned.
UnpinFailsNever(count) == FALSE

UnpinFails(count) == count = 0

\* Connection.pin, line 869: the call is the first reference.
FirstReference(count) == count = 0

\* Handle operations that hold c.mu.RLock() across the wire call they
\* delegate.
DelegatedOps == {"Write", "Read"}

\* Handle operations that take c.mu.RLock(), test c.connection and return.
DescribeOps == {"Description", "ID", "Address"}

\* sync.RWMutex, h being the operation each task is inside. The operations
\* that take c.mu.Lock() do not block while they hold it and are one step
\* each, so the lock is held between steps only for reading, by a delegated
\* Write or Read: Lock() is granted when no task holds the lock, RLock()
\* whenever no step is under way.
LockFree(h) == \A t \in DOMAIN h : h[t] \notin DelegatedOps

PinName(reason) ==
    IF reason = "cursor" THEN "PinToCursor" ELSE "PinToTransaction"

UnpinName(reason) ==
    IF reason = "cursor" THEN "UnpinFromCursor" ELSE "UnpinFromTransaction"

\* A pin call that has evaluated its arguments (lines 852, 857) and waits for
\* c.mu.Lock().
PinWaiting(reason) ==
    IF reason = "cursor" THEN "PinToCursor:args" ELSE "PinToTransaction:args"

OtherReason(reason) == IF reason = "cursor" THEN "transaction" ELSE "cursor"

\* Counts of body bytes a failed io.ReadFull may have consumed: all but one,
\* or all but OutstandingMany (none of the body of a message of size 100).
PartialCounts(need) ==
    {k \in {need - OutstandingMany, need - 1} : k >= 0 /\ k < need}

IdleOp ==
    [kind |-> "none", pc |-> "idle", hasDeadline |-> FALSE, ioErr |-> NIL,
     ret |-> "none", phase |-> "none", size |-> 0, n |-> 0,
     touched |-> FALSE, bodyAttempt |-> FALSE, markerWasNil |-> TRUE,
     setMarker |-> FALSE, closeCalled |-> FALSE,
     rawSize |-> [hi |-> 0, lo |-> 0],
     dst |-> [len |-> 0, prefix |-> [hi |-> 0, lo |-> 0]],
     deadlineWas |-> "none"]

sockClosed == ncCloseCount > 0

\* closed, lines 573-576.
closed == state = connDisconnected

\* write, lines 431-440, and read, lines 500-509: StopListening is called in
\* a deferred function, so on every return, whatever the socket call
\* returned; the listener is idle afterwards.
ListenerAfterStopOnSuccess(l, err) == IF err = NIL THEN "idle" ELSE l

ListenerAfterStop(l, err) == "idle"

\* A socket deadline is "none" (the zero time: no deadline), "own" (the
\* deadline of the context of the wire call in flight) or "earlier" (the
\* deadline of the context of a wire call that has returned).
NoDeadlines == [read |-> "none", write |-> "none"]

\* Lines 411-412 and 455-456: ctx.Deadline() is the zero time when the context
\* has no deadline, and SetWriteDeadline / SetReadDeadline of the zero time
\* removes the deadline the socket has.
DeadlineToSetKeepsOlder(hasDeadline, current) ==
    IF hasDeadline THEN "own" ELSE current

DeadlineToSet(hasDeadline, current) == IF hasDeadline THEN "own" ELSE "none"

\* Neither call resets the deadline before it returns (lines 416-426,
\* 460-475): the one it set stays on the socket, now that of an earlier call.
DeadlinesLeftBehind(ds) ==
    LET LeftBehind(d) == IF d = "own" THEN "earlier" ELSE d
    IN  [read |-> LeftBehind(ds.read), write |-> LeftBehind(ds.write)]

ConnectInProgress == \E p \in ConnectCallers : cpc[p] # "idle"

OpInFlight == op.pc \notin {"idle", "done"}

\* configureTLS, line 161: OCSP verification runs unless the configuration
\* disables certificate verification.
OCSPVerifiesAlways(cfg) == TRUE

OCSPVerifies(cfg) == ~cfg.insecureSkipVerify

\* ------------------------------------------------------------------ Init

\* The Connection handle before the pool has checked the connection out:
\* there is none.
NoHandle ==
    /\ hConnection = FALSE
    /\ refCount = 0
    /\ cleanupPoolFn = NIL
    /\ cleanupServerFn = FALSE
    /\ hpc = [t \in HandleTasks |-> "idle"]
    /\ hlast = NoCall
    /\ poolCalls = NoPoolCalls
    /\ pinsBy = [r \in Reasons |-> 0]
    /\ checkIns = 0
    /\ serverCleanups = 0
    /\ pinCalls = 0
    /\ panicked = FALSE

\* No wire message is being compressed, there is no pool, and no client
\* options are being merged.
NoOthers ==
    /\ wm = NoWireMessage
    /\ pool = NoPool
    /\ mergeArgs = <<>>
    /\ merged = NilPtr
    /\ validateRet = "none"
    /\ waitPc = NoWaiters

\* newConnection: the state after construction of a connection configured
\* with one of cfgs.
NewConnection(cfgs) ==
    /\ config \in cfgs
    /\ state = connInitialized
    /\ nc = NIL
    /\ sockDialed = FALSE
    /\ sockDeadline = NoDeadlines
    /\ ncCloseCount = 0
    /\ desc = EmptyDesc
    /\ serverConnectionID = NilPtr
    /\ generation \in (IF config.loadBalanced THEN {0} ELSE Generations)
    /\ genCalls = IF config.loadBalanced THEN 0 ELSE 1
    /\ genArg = IF config.loadBalanced THEN "unset" ELSE ServiceIDArg(EmptyDesc)
    /\ compressor = "noop"
    /\ zliblevel = 0
    /\ zstdLevel = 0
    /\ awaitRemainingBytes = NilPtr
    /\ connectDone = FALSE
    /\ atDoneSignal = NoDoneSignal
    /\ cpc = [p \in ConnectCallers |-> "idle"]
    /\ connectRet = "none"
    /\ loserRet = "none"
    /\ casWins = 0
    /\ dialCount = 0
    /\ secureHandshakes = [tls |-> 0, tlcp |-> 0]
    /\ ocspCalls = 0
    /\ helloCalls = 0
    /\ finishCalls = 0
    /\ op = IdleOp
    /\ lst = "idle"
    /\ aborted = FALSE
    /\ ctxCancelled = FALSE
    /\ closeTransitions = 0
    /\ closeSockCloses = 0
    /\ closeLoserRet = "none"
    /\ NoHandle

InitWith(cfgs) == NewConnection(cfgs) /\ NoOthers

Init == InitWith(Configs)

\* ----------------------------------------------------------------- close

\* close, lines 553-571: only the call that wins the compare-and-swap closes
\* the socket, and only when c.nc is set; a call that loses it returns nil
\* and does nothing.
CloseEffect ==
    IF CloseCAS(state)
    THEN /\ state' = connDisconnected
         /\ closeTransitions' = closeTransitions + 1
         /\ IF nc # NIL
            THEN /\ ncCloseCount' = ncCloseCount + 1
                 /\ closeSockCloses' = closeSockCloses + 1
            ELSE UNCHANGED <<ncCloseCount, closeSockCloses>>
         /\ UNCHANGED closeLoserRet
    ELSE /\ closeLoserRet' = NIL
         /\ UNCHANGED <<state, ncCloseCount, closeTransitions,
                        closeSockCloses>>

CloseIf(doClose) ==
    IF doClose THEN CloseEffect
    ELSE UNCHANGED <<state, ncCloseCount, closeGhost>>

\* close called from outside the connection's own read, write and connect:
\* an explicit close, a pool eviction.
Close ==
    /\ closeSockCloses < MaxSockCloses
    /\ CloseEffect
    /\ UNCHANGED <<otherVars, config, nc, sockDialed, sockDeadline, descVars,
                   awaitRemainingBytes, connectVars, op, listenerVars,
                   compVars, handleVars>>

\* --------------------------------------------------------------- connect

\* connect, lines 287-290: without a handshaker connect returns nil here.
AfterTransportPcAlwaysHello == "hello"

AfterTransportPc == IF config.handshaker THEN "hello" ELSE "ret"

AfterTLSPc == IF config.tlcpConfig THEN "tlcp" ELSE AfterTransportPc

AfterDialPcNoTransport == AfterTransportPc

AfterDialPc == IF config.tlsConfig THEN "tls" ELSE AfterTLSPc

\* connect, lines 211-224: the deferred calls in the order they are
\* registered. They run in the reverse order when connect returns.
DeferredCallsHandlerFirst ==
    <<"errorHandler", "closeConnectContext", "closeConnectDone">>

DeferredCalls == <<"closeConnectContext", "closeConnectDone", "errorHandler">>

\* The deferred call runs before close(c.connectDone) does: it was
\* registered after it.
RunsBeforeSignal(name) ==
    LET PositionOf(n) ==
            CHOOSE i \in 1..Len(DeferredCalls) : DeferredCalls[i] = n
    IN  PositionOf(name) > PositionOf("closeConnectDone")

\* connect returns err with c.nc = ncNow: the deferred functions of lines
\* 211-224. On an error the state is stored as Disconnected and the socket,
\* when there is one, is closed; then connectDone is closed.
ConnectReturn(p, err, ncNow) ==
    /\ state' = ConnectErrorState(err, state)
    /\ ncCloseCount' =
           IF err # NIL /\ ncNow # NIL THEN ncCloseCount + 1 ELSE ncCloseCount
    /\ connectDone' = TRUE
    /\ atDoneSignal' =
           IF err = NIL THEN atDoneSignal
           ELSE LET handled == RunsBeforeSignal("errorHandler")
                IN  [state |-> IF handled THEN ConnectErrorState(err, state)
                               ELSE state,
                     sockOpen |-> ncNow # NIL /\ ~sockClosed /\ ~handled]
    /\ cpc' = [cpc EXCEPT ![p] = "idle"]
    /\ connectRet' = err

\* connect goes on to its next blocking call, or returns nil.
ConnectContinue(p, pcNext, ncNow) ==
    IF pcNext = "ret"
    THEN ConnectReturn(p, NIL, ncNow)
    ELSE /\ cpc' = [cpc EXCEPT ![p] = pcNext]
         /\ UNCHANGED <<state, ncCloseCount, connectDone, atDoneSignal,
                        connectRet>>

\* connect, lines 206-209: the compare-and-swap; a call that loses returns nil.
ConnectCall(p) ==
    /\ cpc[p] = "idle"
    /\ IF ConnectCAS(state)
       THEN /\ state' = connConnected
            /\ casWins' = casWins + 1
            /\ cpc' = [cpc EXCEPT ![p] = "dial"]
            /\ UNCHANGED loserRet
       ELSE /\ loserRet' = NIL
            /\ UNCHANGED <<state, casWins, cpc>>
    /\ UNCHANGED <<otherVars, atDoneSignal, connectRet, config, nc, sockDialed,
                   sockDeadline, ncCloseCount, descVars, awaitRemainingBytes,
                   connectDone, dialCount, op, listenerVars, closeGhost,
                   secureHandshakes, ocspCalls, helloCalls, finishCalls,
                   compVars, handleVars>>

\* connect, lines 245-250: DialContext.
Dial(p) ==
    /\ cpc[p] = "dial"
    /\ dialCount' = dialCount + 1
    /\ \/ /\ sockDialed' = TRUE
          /\ nc' = "raw"
          /\ ConnectContinue(p, AfterDialPc, "raw")
       \/ /\ UNCHANGED <<sockDialed, nc>>
          /\ ConnectReturn(p, "dial", nc)
    /\ UNCHANGED <<otherVars, config, sockDeadline, descVars,
                   awaitRemainingBytes, casWins, loserRet, op, listenerVars,
                   closeGhost, secureHandshakes, ocspCalls, helloCalls,
                   finishCalls, compVars, handleVars>>

\* connect, lines 252-268, and configureTLS, lines 137-168: the handshake
\* and, when it succeeded and certificate verification is on, the OCSP
\* verification. A failure of either leaves c.nc the raw socket and makes
\* connect return a ConnectionError wrapping it.
ConfigureTLS(p) ==
    /\ cpc[p] = "tls"
    /\ secureHandshakes' = [secureHandshakes EXCEPT !.tls = @ + 1]
    /\ \/ /\ UNCHANGED <<nc, ocspCalls>>
          /\ ConnectReturn(p, "tls", nc)
       \/ /\ OCSPVerifies(config)
          /\ ocspCalls' = ocspCalls + 1
          /\ UNCHANGED nc
          /\ ConnectReturn(p, "ocsp", nc)
       \/ /\ ocspCalls' = IF OCSPVerifies(config) THEN ocspCalls + 1
                                                  ELSE ocspCalls
          /\ nc' = "tls"
          /\ ConnectContinue(p, AfterTLSPc, "tls")
    /\ UNCHANGED <<otherVars, config, sockDialed, sockDeadline, descVars,
                   awaitRemainingBytes, casWins, loserRet, dialCount, op,
                   listenerVars, closeGhost, helloCalls, finishCalls, compVars,
                   handleVars>>

\* connect, lines 271-284, and configureTLCP, lines 170-201: the handshake
\* only; the OCSP verification of lines 192-198 is commented out.
ConfigureTLCP(p) ==
    /\ cpc[p] = "tlcp"
    /\ secureHandshakes' = [secureHandshakes EXCEPT !.tlcp = @ + 1]
    /\ \/ /\ nc' = "tlcp"
          /\ ConnectContinue(p, AfterTransportPc, "tlcp")
       \/ /\ UNCHANGED nc
          /\ ConnectReturn(p, "tlcp", nc)
    /\ UNCHANGED <<otherVars, config, sockDialed, sockDeadline, descVars,
                   awaitRemainingBytes, casWins, loserRet, dialCount, op,
                   listenerVars, closeGhost, ocspCalls, helloCalls,
                   finishCalls, compVars, handleVars>>

\* connect, lines 298-318: GetHandshakeInformation, the load-balanced check
\* and the deferred generation number. The handshaker's own reads and writes
\* are the wire calls made while connect is at this step.
GetHandshakeInformation(p) ==
    /\ cpc[p] = "hello"
    /\ ~OpInFlight
    /\ helloCalls' = helloCalls + 1
    /\ \/ /\ ConnectReturn(p, "handshake", nc)
          /\ UNCHANGED descVars
       \/ \E d \in DescChoices(config) :
            /\ desc' = d
            /\ serverConnectionID' \in ServerConnectionIDs
            /\ IF LoadBalancedMismatch(config, d)
               THEN /\ ConnectReturn(p, "lbMismatch", nc)
                    /\ UNCHANGED <<generation, genCalls, genArg>>
               ELSE /\ IF SetsGenerationAfterHello(config)
                       THEN /\ generation' \in Generations
                            /\ genCalls' = genCalls + 1
                            /\ genArg' = ServiceIDArg(d)
                       ELSE UNCHANGED <<generation, genCalls, genArg>>
                    /\ ConnectContinue(p, "finish", nc)
    /\ UNCHANGED <<otherVars, config, nc, sockDialed, sockDeadline,
                   awaitRemainingBytes, casWins, loserRet, dialCount, op,
                   listenerVars, closeGhost, secureHandshakes, ocspCalls,
                   finishCalls, compVars, handleVars>>

\* connect, lines 322-359: FinishHandshake and, when it succeeds, the
\* selection of the compressor.
FinishHandshake(p) ==
    /\ cpc[p] = "finish"
    /\ ~OpInFlight
    /\ finishCalls' = finishCalls + 1
    /\ \/ /\ LET sel == SelectCompressor(config, desc,
                                         [compressor |-> compressor,
                                          zliblevel |-> zliblevel,
                                          zstdLevel |-> zstdLevel])
             IN  /\ compressor' = sel.compressor
                 /\ zliblevel' = sel.zliblevel
                 /\ zstdLevel' = sel.zstdLevel
          /\ ConnectReturn(p, NIL, nc)
       \/ /\ UNCHANGED compVars
          /\ ConnectReturn(p, "finishHandshake", nc)
    /\ UNCHANGED <<otherVars, config, nc, sockDialed, sockDeadline, descVars,
                   awaitRemainingBytes, casWins, loserRet, dialCount, op,
                   listenerVars, closeGhost, secureHandshakes, ocspCalls,
                   helloCalls, handleVars>>

\* ------------------------------------------- cancellation listener, context

\* The context of the last wire call is cancelled by its owner, while the
\* call is in flight or after it has returned.
CancelCtx ==
    /\ op.pc # "idle"
    /\ ~ctxCancelled
    /\ ctxCancelled' = TRUE
    /\ UNCHANGED <<otherVars, config, connVars, descVars, awaitRemainingBytes,
                   connectVars, op, lst, aborted, closeGhost, compVars,
                   handleVars>>

\* The listener observes the cancellation: it records that it aborted and
\* runs cancellationListenerCallback (lines 373-375), which closes.
ListenerFire ==
    /\ lst = "listening"
    /\ ctxCancelled
    /\ aborted' = TRUE
    /\ lst' = "fired"
    /\ CloseEffect
    /\ UNCHANGED <<otherVars, config, nc, sockDialed, sockDeadline, descVars,
                   awaitRemainingBytes, connectVars, op, ctxCancelled,
                   compVars, handleVars>>

\* ------------------------------------------------------- wire read / write

\* readWireMessage or writeWireMessage is called, with a fresh context, by the
\* handshaker during connect or by whoever holds the connection outside the
\* dial and transport setup. Lines 404-409 and 448-453: the call is rejected
\* unless the state is Connected.
WireCallEffect(kind, hasDeadline) ==
    /\ ~OpInFlight
    /\ \A p \in ConnectCallers : cpc[p] \in {"idle", "hello", "finish"}
    /\ LET call == [IdleOp EXCEPT !.kind = kind,
                                  !.markerWasNil =
                                      (awaitRemainingBytes = NilPtr)]
       IN  IF WireCallRejected(state)
           THEN op' = [call EXCEPT !.pc = "done", !.ret = "closed"]
           ELSE op' = [call EXCEPT !.pc = "deadline",
                                   !.hasDeadline = hasDeadline]
    /\ ctxCancelled' = FALSE
    /\ UNCHANGED <<otherVars, config, connVars, descVars, awaitRemainingBytes,
                   connectVars, lst, aborted, closeGhost, compVars>>

\* A wire call made on the connection itself.
WireCall(kind, hasDeadline) ==
    /\ WireCallEffect(kind, hasDeadline)
    /\ UNCHANGED handleVars

\* Lines 411-414 and 455-458: SetWriteDeadline / SetReadDeadline; on success
\* write / read start the cancellation listener (lines 430, 499).
SetDeadline ==
    /\ op.pc = "deadline"
    /\ \/ /\ op' = [op EXCEPT !.pc = "io", !.touched = TRUE,
                              !.deadlineWas = sockDeadline[op.kind]]
          /\ sockDeadline' =
                 [sockDeadline EXCEPT
                     ![op.kind] = DeadlineToSet(op.hasDeadline, @)]
          /\ lst' = "listening"
          /\ aborted' = FALSE
          /\ UNCHANGED ctxCancelled
       \/ /\ op' = [op EXCEPT !.pc = "done", !.touched = TRUE,
                              !.hasDeadline = FALSE, !.ret = "setDeadline"]
          /\ ctxCancelled' = FALSE
          /\ UNCHANGED <<lst, aborted, sockDeadline>>
    /\ UNCHANGED <<otherVars, config, state, nc, sockDialed, ncCloseCount,
                   descVars, awaitRemainingBytes, connectVars, closeGhost,
                   compVars, handleVars>>

\* write, line 442: c.nc.Write.
WriteIO ==
    /\ op.kind = "write"
    /\ op.pc = "io"
    /\ \/ /\ ~sockClosed
          /\ op' = [op EXCEPT !.pc = "stop", !.ioErr = NIL,
                              !.deadlineWas = "none"]
       \/ \E e \in IOErrors :
            /\ sockClosed => e = "EOF"
            /\ op' = [op EXCEPT !.pc = "stop", !.ioErr = e,
                                !.deadlineWas = "none"]
    /\ UNCHANGED <<otherVars, config, connVars, descVars, awaitRemainingBytes,
                   connectVars, listenerVars, closeGhost, compVars,
                   handleVars>>

\* read, lines 526-536: io.ReadFull of the size prefix, then parseWmSizeBytes.
ReadHeader ==
    /\ op.kind = "read"
    /\ op.pc = "io"
    /\ \/ /\ ~sockClosed
          /\ \E raw \in RawSizes :
               LET r == parseWmSizeBytes(raw, desc.MaxMessageSize)
               IN  op' = [op EXCEPT !.pc = IF r.err = NIL THEN "body"
                                           ELSE "stop",
                                    !.phase = "hdr", !.n = 4,
                                    !.deadlineWas = "none",
                                    !.rawSize = raw, !.size = r.size,
                                    !.dst = IF r.err = NIL
                                            THEN [len |-> r.size,
                                                  prefix |-> raw]
                                            ELSE IdleOp.dst,
                                    !.ioErr = r.err]
          /\ UNCHANGED awaitRemainingBytes
       \/ \E n \in 0..3, e \in IOErrors :
            /\ sockClosed => e = "EOF"
            /\ op' = [op EXCEPT !.pc = "stop", !.phase = "hdr", !.n = n,
                                !.ioErr = e, !.deadlineWas = "none",
                                !.setMarker = HeaderMarks(n, e)]
            /\ awaitRemainingBytes' =
                   IF HeaderMarks(n, e) THEN PtrTo(n)
                   ELSE awaitRemainingBytes
    /\ UNCHANGED <<otherVars,
                   config, connVars, descVars, connectVars, listenerVars,
                   closeGhost, compVars, handleVars>>

\* read, lines 538-550: io.ReadFull of the body.
ReadBody ==
    /\ op.kind = "read"
    /\ op.pc = "body"
    /\ LET need == op.size - 4
       IN  \/ /\ need = 0 \/ ~sockClosed
              /\ op' = [op EXCEPT !.pc = "stop", !.phase = "body",
                                  !.n = need, !.bodyAttempt = TRUE,
                                  !.ioErr = NIL]
              /\ UNCHANGED awaitRemainingBytes
           \/ \E n \in PartialCounts(need), e \in IOErrors :
                LET remainingBytes == RemainingBytes(op.size, n)
                    mark == BodyMarks(remainingBytes, e)
                IN  /\ sockClosed => e = "EOF"
                    /\ op' = [op EXCEPT !.pc = "stop", !.phase = "body",
                                        !.n = n, !.bodyAttempt = TRUE,
                                        !.ioErr = e, !.setMarker = mark]
                    /\ awaitRemainingBytes' =
                           IF mark THEN PtrTo(remainingBytes)
                           ELSE awaitRemainingBytes
    /\ UNCHANGED <<otherVars,
                   config, connVars, descVars, connectVars, listenerVars,
                   closeGhost, compVars, handleVars>>

\* write's deferred StopListening (lines 431-440), then writeWireMessage
\* lines 417-426.
WriteReturn ==
    /\ op.kind = "write"
    /\ op.pc = "stop"
    /\ lst \in {"listening", "fired"}
    /\ LET err == StopListeningOverride(aborted, op.ioErr)
       IN  /\ op' = [op EXCEPT !.pc = "done", !.hasDeadline = FALSE,
                               !.closeCalled = WriteFailureCloses(err),
                               !.ret = transformNetworkError(ctxCancelled, err,
                                                             op.hasDeadline)]
           /\ CloseIf(WriteFailureCloses(err))
    /\ lst' = ListenerAfterStop(lst, op.ioErr)
    /\ ctxCancelled' = FALSE
    /\ sockDeadline' = DeadlinesLeftBehind(sockDeadline)
    /\ UNCHANGED <<otherVars,
                   config, nc, sockDialed, descVars, awaitRemainingBytes,
                   connectVars, aborted, compVars, handleVars>>

\* read's deferred StopListening (lines 500-509), then readWireMessage
\* lines 461-475.
ReadReturn ==
    /\ op.kind = "read"
    /\ op.pc = "stop"
    /\ lst \in {"listening", "fired"}
    /\ LET err == StopListeningOverride(aborted, op.ioErr)
           closes == ReadFailureCloses(err, awaitRemainingBytes)
       IN  /\ op' = [op EXCEPT !.pc = "done",
                               !.closeCalled = closes,
                               !.rawSize = IdleOp.rawSize, !.size = 0,
                               !.dst = IdleOp.dst,
                               !.n = 0, !.hasDeadline = FALSE,
                               !.ret = transformNetworkError(ctxCancelled, err,
                                                             op.hasDeadline)]
           /\ CloseIf(closes)
    /\ lst' = ListenerAfterStop(lst, op.ioErr)
    /\ ctxCancelled' = FALSE
    /\ sockDeadline' = DeadlinesLeftBehind(sockDeadline)
    /\ UNCHANGED <<otherVars,
                   config, nc, sockDialed, descVars, awaitRemainingBytes,
                   connectVars, aborted, compVars, handleVars>>

\* ------------------------------------------------------ Connection handle

\* The handle the pool hands out on checkout: it wraps a connection whose
\* connect has succeeded (plain transport, no handshaker), nothing is pinned,
\* and the server may have registered cleanupServerFn. sels are the
\* compressors its connect may have selected.
HandleInitWith(sels) ==
    /\ config = PlainConfig
    /\ state = connConnected
    /\ nc = "raw"
    /\ sockDialed = TRUE
    /\ sockDeadline = NoDeadlines
    /\ ncCloseCount = 0
    /\ desc = EmptyDesc
    /\ serverConnectionID = NilPtr
    /\ generation \in Generations
    /\ genCalls = 1
    /\ genArg = ServiceIDArg(EmptyDesc)
    /\ \E sel \in sels :
          /\ compressor = sel.compressor
          /\ zliblevel = sel.zliblevel
          /\ zstdLevel = sel.zstdLevel
    /\ awaitRemainingBytes = NilPtr
    /\ connectDone = TRUE
    /\ atDoneSignal = NoDoneSignal
    /\ cpc = [p \in ConnectCallers |-> "idle"]
    /\ connectRet = NIL
    /\ loserRet = "none"
    /\ casWins = 1
    /\ dialCount = 1
    /\ secureHandshakes = [tls |-> 0, tlcp |-> 0]
    /\ ocspCalls = 0
    /\ helloCalls = 0
    /\ finishCalls = 0
    /\ op = IdleOp
    /\ lst = "idle"
    /\ aborted = FALSE
    /\ ctxCancelled = FALSE
    /\ closeTransitions = 0
    /\ closeSockCloses = 0
    /\ closeLoserRet = "none"
    /\ hConnection = TRUE
    /\ refCount = 0
    /\ cleanupPoolFn = NIL
    /\ cleanupServerFn \in BOOLEAN
    /\ hpc = [t \in HandleTasks |-> "idle"]
    /\ hlast = NoCall
    /\ poolCalls = NoPoolCalls
    /\ pinsBy = [r \in Reasons |-> 0]
    /\ checkIns = 0
    /\ serverCleanups = 0
    /\ pinCalls = 0
    /\ panicked = FALSE

HandleInit == HandleInitWith({NoCompressor}) /\ NoOthers

\* What a handle operation leaves alone of the connection.
HandleFrame ==
    UNCHANGED <<otherVars, config, nc, sockDialed, sockDeadline, descVars,
                compVars, awaitRemainingBytes, connectVars, op, listenerVars>>

\* Task t's operation returns ret (its deferred Unlock / RUnlock included).
HReturn(t, name, ret) ==
    /\ hpc' = [hpc EXCEPT ![t] = "idle"]
    /\ hlast' = [name |-> name, ret |-> ret]

\* Connection.Write / Connection.Read, lines 699-717: under RLock, fail when
\* the connection is nil, else delegate to writeWireMessage /
\* readWireMessage; the read lock is held until the delegate returns.
HWire(t, kind, hasDeadline) ==
    /\ ~panicked
    /\ hpc[t] = "idle"
    /\ LET name == IF kind = "write" THEN "Write" ELSE "Read"
       IN  IF ~hConnection
           THEN /\ HReturn(t, name, "ErrConnectionClosed")
                /\ UNCHANGED <<otherVars, config, connVars, descVars, compVars,
                               awaitRemainingBytes, connectVars, op,
                               listenerVars, closeGhost>>
           ELSE /\ WireCallEffect(kind, hasDeadline)
                /\ hpc' = [hpc EXCEPT ![t] = name]
                /\ UNCHANGED hlast
    /\ UNCHANGED <<hConnection, refCount, cleanupPoolFn, cleanupServerFn,
                   poolCalls, pinsBy, checkIns, serverCleanups, pinCalls,
                   panicked>>

\* The delegate has returned: Write / Read hand its result to their caller
\* and release the read lock.
HWireReturn(t) ==
    /\ hpc[t] \in DelegatedOps
    /\ op.pc = "done"
    /\ HReturn(t, hpc[t], "delegated")
    /\ op' = IdleOp
    /\ UNCHANGED <<otherVars,
                   config, connVars, descVars, compVars, awaitRemainingBytes,
                   connectVars, listenerVars, closeGhost, hConnection,
                   refCount, cleanupPoolFn, cleanupServerFn, poolCalls,
                   pinsBy, checkIns, serverCleanups, pinCalls, panicked>>

\* Description, ID, Address (lines 753-760, 806-813, 831-838):
\* under RLock, a placeholder when the connection is nil, else the value.
HDescribe(t, name) ==
    /\ ~panicked
    /\ hpc[t] = "idle"
    /\ HReturn(t, name, IF hConnection THEN "value" ELSE "placeholder")
    /\ UNCHANGED <<otherVars,
                   config, connVars, descVars, compVars, awaitRemainingBytes,
                   connectVars, op, listenerVars, closeGhost, hConnection,
                   refCount, cleanupPoolFn, cleanupServerFn, poolCalls,
                   pinsBy, checkIns, serverCleanups, pinCalls, panicked>>

\* CompressWireMessage, lines 722-750: under RLock, ErrConnectionClosed when
\* the connection is nil; else the message, compressed or copied, or the
\* error of a message shorter than a header or of the codec.
CompressWireMessage(t) ==
    /\ ~panicked
    /\ hpc[t] = "idle"
    /\ \E r \in IF ~hConnection THEN {"ErrConnectionClosed"}
                 ELSE IF compressor = "noop" THEN {NIL}
                 ELSE {NIL, "compress"} :
          HReturn(t, "CompressWireMessage", r)
    /\ UNCHANGED <<otherVars,
                   config, connVars, descVars, compVars, awaitRemainingBytes,
                   connectVars, op, listenerVars, closeGhost, hConnection,
                   refCount, cleanupPoolFn, cleanupServerFn, poolCalls,
                   pinsBy, checkIns, serverCleanups, pinCalls, panicked>>

\* Stale, lines 824-828: under RLock, c.connection.pool with no nil test: a
\* nil pointer dereference when the connection is nil.
Stale(t) ==
    /\ ~panicked
    /\ hpc[t] = "idle"
    /\ HReturn(t, "Stale", IF hConnection THEN "value" ELSE "panic")
    /\ panicked' = ~hConnection
    /\ UNCHANGED <<otherVars,
                   config, connVars, descVars, compVars, awaitRemainingBytes,
                   connectVars, op, listenerVars, closeGhost, hConnection,
                   refCount, cleanupPoolFn, cleanupServerFn, poolCalls,
                   pinsBy, checkIns, serverCleanups, pinCalls>>

\* Alive and ServerConnectionID, lines 801-803 and 816-821: c.connection is
\* read without the lock.
Unlocked(t, name) ==
    /\ ~panicked
    /\ hpc[t] = "idle"
    /\ HReturn(t, name, IF hConnection THEN "value" ELSE "placeholder")
    /\ UNCHANGED <<otherVars,
                   config, connVars, descVars, compVars, awaitRemainingBytes,
                   connectVars, op, listenerVars, closeGhost, hConnection,
                   refCount, cleanupPoolFn, cleanupServerFn, poolCalls,
                   pinsBy, checkIns, serverCleanups, pinCalls, panicked>>

\* DriverConnectionID, lines 903-905: c.connection is read without the lock
\* and without a nil test: a nil pointer dereference when it is nil.
DriverConnectionID(t) ==
    /\ ~panicked
    /\ hpc[t] = "idle"
    /\ HReturn(t, "DriverConnectionID",
               IF hConnection THEN "value" ELSE "panic")
    /\ panicked' = ~hConnection
    /\ UNCHANGED <<otherVars,
                   config, connVars, descVars, compVars, awaitRemainingBytes,
                   connectVars, op, listenerVars, closeGhost, hConnection,
                   refCount, cleanupPoolFn, cleanupServerFn, poolCalls,
                   pinsBy, checkIns, serverCleanups, pinCalls>>

\* PinToCursor / PinToTransaction, lines 852 and 857: the arguments of pin,
\* c.connection.pool.pinConnectionTo..., are evaluated before pin takes the
\* lock: a nil pointer dereference when the connection is nil.
PinArgs(t, reason) ==
    /\ ~panicked
    /\ hpc[t] = "idle"
    /\ pinCalls < MaxPinCalls
    /\ pinCalls' = pinCalls + 1
    /\ IF hConnection
       THEN /\ hpc' = [hpc EXCEPT ![t] = PinWaiting(reason)]
            /\ UNCHANGED <<hlast, panicked>>
       ELSE /\ HReturn(t, PinName(reason), "panic")
            /\ panicked' = TRUE
    /\ UNCHANGED <<otherVars,
                   config, connVars, descVars, compVars, awaitRemainingBytes,
                   connectVars, op, listenerVars, closeGhost, hConnection,
                   refCount, cleanupPoolFn, cleanupServerFn, poolCalls,
                   pinsBy, checkIns, serverCleanups>>

\* cleanupReferences, lines 786-798, called by task t inside name: check in,
\* run and clear the two cleanup callbacks, forget the connection, return
\* what checkIn returned.
cleanupReferences(t, name) ==
    /\ checkIns' = checkIns + 1
    /\ IF cleanupPoolFn # NIL
       THEN poolCalls' = [poolCalls EXCEPT !.unpin[cleanupPoolFn] = @ + 1]
       ELSE UNCHANGED poolCalls
    /\ cleanupPoolFn' = NIL
    /\ serverCleanups' = IF cleanupServerFn THEN serverCleanups + 1
                         ELSE serverCleanups
    /\ cleanupServerFn' = FALSE
    /\ hConnection' = FALSE
    /\ \E err \in {NIL, "checkIn"} : HReturn(t, name, err)

\* Connection.Close, lines 764-772.
HClose(t) ==
    /\ ~panicked
    /\ hpc[t] = "idle"
    /\ LockFree(hpc)
    /\ IF CloseIsNoOp(hConnection, refCount)
       THEN /\ HReturn(t, "Close", NIL)
            /\ UNCHANGED <<hConnection, cleanupPoolFn, cleanupServerFn,
                           poolCalls, checkIns, serverCleanups>>
       ELSE cleanupReferences(t, "Close")
    /\ HandleFrame
    /\ UNCHANGED <<state, ncCloseCount, closeGhost, refCount, pinsBy,
                   pinCalls, panicked>>

\* Connection.Expire, lines 775-784.
Expire(t) ==
    /\ ~panicked
    /\ hpc[t] = "idle"
    /\ LockFree(hpc)
    /\ IF ~hConnection
       THEN /\ HReturn(t, "Expire", NIL)
            /\ UNCHANGED <<state, ncCloseCount, closeGhost, hConnection,
                           cleanupPoolFn, cleanupServerFn, poolCalls, checkIns,
                           serverCleanups>>
       ELSE /\ CloseEffect
            /\ cleanupReferences(t, "Expire")
    /\ HandleFrame
    /\ UNCHANGED <<refCount, pinsBy, pinCalls, panicked>>

\* Connection.pin, lines 860-875, its arguments evaluated.
pin(t, reason) ==
    /\ ~panicked
    /\ hpc[t] = PinWaiting(reason)
    /\ LockFree(hpc)
    /\ IF ~hConnection
       THEN /\ HReturn(t, PinName(reason), "alreadyReturned")
            /\ UNCHANGED <<refCount, cleanupPoolFn, poolCalls, pinsBy>>
       ELSE /\ IF FirstReference(refCount)
               THEN /\ poolCalls' = [poolCalls EXCEPT !.pin[reason] = @ + 1]
                    /\ cleanupPoolFn' = reason
               ELSE UNCHANGED <<poolCalls, cleanupPoolFn>>
            /\ refCount' = refCount + 1
            /\ pinsBy' = [pinsBy EXCEPT ![reason] = @ + 1]
            /\ HReturn(t, PinName(reason), NIL)
    /\ HandleFrame
    /\ UNCHANGED <<state, ncCloseCount, closeGhost, hConnection,
                   cleanupServerFn, checkIns, serverCleanups, pinCalls,
                   panicked>>

\* UnpinFromCursor / UnpinFromTransaction, lines 878-900. The reason is
\* used in the error message only; the unit released is one the reason
\* contributed when it holds one, else one of the other reason.
unpin(t, reason) ==
    /\ ~panicked
    /\ hpc[t] = "idle"
    /\ LockFree(hpc)
    /\ IF ~hConnection
       THEN /\ HReturn(t, UnpinName(reason), NIL)
            /\ UNCHANGED <<refCount, pinsBy>>
       ELSE IF UnpinFails(refCount)
       THEN /\ HReturn(t, UnpinName(reason), "notPinned")
            /\ UNCHANGED <<refCount, pinsBy>>
       ELSE /\ refCount' = refCount - 1
            /\ pinsBy' =
                   IF pinsBy[reason] > 0
                   THEN [pinsBy EXCEPT ![reason] = @ - 1]
                   ELSE [pinsBy EXCEPT ![OtherReason(reason)] = @ - 1]
            /\ HReturn(t, UnpinName(reason), NIL)
    /\ HandleFrame
    /\ UNCHANGED <<state, ncCloseCount, closeGhost, hConnection,
                   cleanupPoolFn, cleanupServerFn, poolCalls, checkIns,
                   serverCleanups, pinCalls, panicked>>

\* Every operation of the handle, and the steps of the wire calls it
\* delegates.
HandleNext ==
    \/ \E t \in HandleTasks, kind \in {"read", "write"},
          hasDeadline \in BOOLEAN : HWire(t, kind, hasDeadline)
    \/ \E t \in HandleTasks : HWireReturn(t)
    \/ \E t \in HandleTasks, name \in DescribeOps : HDescribe(t, name)
    \/ \E t \in HandleTasks : CompressWireMessage(t)
    \/ \E t \in HandleTasks : Stale(t)
    \/ \E t \in HandleTasks, name \in {"Alive", "ServerConnectionID"} :
          Unlocked(t, name)
    \/ \E t \in HandleTasks : DriverConnectionID(t)
    \/ \E t \in HandleTasks, r \in Reasons : PinArgs(t, r)
    \/ \E t \in HandleTasks : HClose(t)
    \/ \E t \in HandleTasks : Expire(t)
    \/ \E t \in HandleTasks, r \in Reasons : pin(t, r)
    \/ SetDeadline
    \/ WriteIO
    \/ ReadHeader
    \/ ReadBody
    \/ WriteReturn
    \/ ReadReturn

HandleSpec == HandleInit /\ [][HandleNext]_vars

\* Pinning and release: the operations that change the pin count or release
\* the handle, with a delegated Write holding the read lock meanwhile.
PinNext ==
    \/ \E t \in HandleTasks, r \in Reasons : PinArgs(t, r)
    \/ \E t \in HandleTasks, r \in Reasons : pin(t, r)
    \/ \E t \in HandleTasks, r \in Reasons : unpin(t, r)
    \/ \E t \in HandleTasks : HClose(t)
    \/ \E t \in HandleTasks : Expire(t)
    \/ \E t \in HandleTasks, hasDeadline \in BOOLEAN :
          HWire(t, "write", hasDeadline)
    \/ \E t \in HandleTasks : HWireReturn(t)
    \/ SetDeadline
    \/ WriteIO
    \/ WriteReturn

PinSpec == HandleInit /\ [][PinNext]_vars

\* ------------------------------------------------------------------ Next

Next ==
    \/ \E p \in ConnectCallers : ConnectCall(p)
    \/ \E p \in ConnectCallers : Dial(p)
    \/ \E p \in ConnectCallers : ConfigureTLS(p)
    \/ \E p \in ConnectCallers : ConfigureTLCP(p)
    \/ \E p \in ConnectCallers : GetHandshakeInformation(p)
    \/ \E p \in ConnectCallers : FinishHandshake(p)
    \/ Close
    \/ CancelCtx
    \/ ListenerFire
    \/ \E kind \in {"read", "write"}, hasDeadline \in BOOLEAN :
           WireCall(kind, hasDeadline)
    \/ SetDeadline
    \/ WriteIO
    \/ ReadHeader
    \/ ReadBody
    \/ WriteReturn
    \/ ReadReturn

Spec == Init /\ [][Next]_vars

\* ------------------------------------------------ compressor negotiation

\* connect on a connection configured with compressors: the inputs of the
\* selection (the configured list and levels, the advertised list) are drawn
\* by CompressorInit and GetHandshakeInformation.
CompressorInit == InitWith(CompressorConfigs)

CompressorNext ==
    \/ \E p \in ConnectCallers : ConnectCall(p)
    \/ \E p \in ConnectCallers : Dial(p)
    \/ \E p \in ConnectCallers : GetHandshakeInformation(p)
    \/ \E p \in ConnectCallers : FinishHandshake(p)

CompressorSpec == CompressorInit /\ [][CompressorNext]_vars

\* connect alone, over every configuration of the transport and handshake.
TransportInit == InitWith(TransportConfigs)

TransportNext ==
    \/ \E p \in ConnectCallers : ConnectCall(p)
    \/ \E p \in ConnectCallers : Dial(p)
    \/ \E p \in ConnectCallers : ConfigureTLS(p)
    \/ \E p \in ConnectCallers : ConfigureTLCP(p)
    \/ \E p \in ConnectCallers : GetHandshakeInformation(p)
    \/ \E p \in ConnectCallers : FinishHandshake(p)

TransportSpec == TransportInit /\ [][TransportNext]_vars

\* ------------------------------------------------------------------ wait

\* What wait leaves alone: everything but the waiter's own position.
WaitFrame ==
    UNCHANGED <<wm, pool, optionVars, config, connVars, descVars, compVars,
                awaitRemainingBytes, connectVars, op, listenerVars,
                closeGhost, handleVars>>

\* wait, lines 361-362: c.connectDone is never nil (newConnection, line
\* 100), so the caller goes on to receive from it.
WaitCall(w) ==
    /\ waitPc[w] = "idle"
    /\ waitPc' = [waitPc EXCEPT ![w] = "waiting"]
    /\ WaitFrame

\* wait, line 363: the receive from c.connectDone returns once the channel
\* is closed.
WaitReturn(w) ==
    /\ waitPc[w] = "waiting"
    /\ connectDone
    /\ waitPc' = [waitPc EXCEPT ![w] = "returned"]
    /\ WaitFrame

\* connect, close and wait on one connection. A receive from a closed
\* channel does not block, so a waiter that can return does.
WaitNext ==
    \/ \E p \in ConnectCallers : ConnectCall(p)
    \/ \E p \in ConnectCallers : Dial(p)
    \/ \E p \in ConnectCallers : ConfigureTLS(p)
    \/ \E p \in ConnectCallers : ConfigureTLCP(p)
    \/ \E p \in ConnectCallers : GetHandshakeInformation(p)
    \/ \E p \in ConnectCallers : FinishHandshake(p)
    \/ Close
    \/ \E w \in Waiters : WaitCall(w)
    \/ \E w \in Waiters : WaitReturn(w)

WaitSpec ==
    /\ Init
    /\ [][WaitNext]_vars
    /\ \A w \in Waiters : WF_vars(WaitReturn(w))

\* ------------------------------------------------------------------ pool

\* A pool with a maximum size and nothing in it. out is the connection each
\* caller holds (0: none), wait says that the caller is inside checkout,
\* blocked says that it found the pool at its maximum there, created counts
\* the physical connections created and returned the check-ins.
PoolInit ==
    /\ NewConnection({PlainConfig})
    /\ wm = NoWireMessage
    /\ mergeArgs = <<>>
    /\ merged = NilPtr
    /\ validateRet = "none"
    /\ waitPc = NoWaiters
    /\ \E m \in MaxPoolSizes :
          pool = [pc |-> "ready", max |-> m, idle |-> {},
                  out |-> [c \in PoolCallers |-> 0],
                  wait |-> [c \in PoolCallers |-> FALSE],
                  blocked |-> [c \in PoolCallers |-> FALSE],
                  created |-> 0, returned |-> 0]

PoolFrame ==
    UNCHANGED <<wm, optionVars, waitPc, config, connVars, descVars, compVars,
                awaitRemainingBytes, connectVars, op, listenerVars,
                closeGhost, handleVars>>

\* A caller asks for a connection.
CheckOut(c) ==
    /\ pool.out[c] = 0
    /\ ~pool.wait[c]
    /\ pool' = [pool EXCEPT !.wait[c] = TRUE,
                            !.blocked[c] = (pool.idle = {}
                                            /\ ~PoolHasRoom(pool))]
    /\ PoolFrame

\* The checkout of a caller returns: an idle connection when there is one,
\* otherwise a new one when the pool has room; otherwise it stays blocked.
CheckOutReturn(c) ==
    /\ pool.wait[c]
    /\ \/ \E id \in pool.idle :
            pool' = [pool EXCEPT !.wait[c] = FALSE, !.out[c] = id,
                                 !.idle = @ \ {id}]
       \/ /\ pool.idle = {}
          /\ PoolHasRoom(pool)
          /\ pool.created < MaxPhysical
          /\ pool' = [pool EXCEPT !.wait[c] = FALSE,
                                  !.out[c] = pool.created + 1,
                                  !.created = @ + 1]
    /\ PoolFrame

\* A caller checks its connection in: it goes back to the idle set when it
\* is healthy and not stale, and is closed otherwise.
CheckIn(c) ==
    /\ pool.out[c] # 0
    /\ \E healthy \in BOOLEAN :
          pool' = [pool EXCEPT !.out[c] = 0,
                               !.blocked[c] = FALSE,
                               !.returned = IF @ < MaxPhysical THEN @ + 1
                                            ELSE @,
                               !.idle = IF healthy
                                        THEN @ \cup {pool.out[c]} ELSE @]
    /\ PoolFrame

PoolNext ==
    \/ \E c \in PoolCallers : CheckOut(c)
    \/ \E c \in PoolCallers : CheckOutReturn(c)
    \/ \E c \in PoolCallers : CheckIn(c)

PoolSpec == PoolInit /\ [][PoolNext]_vars

\* -------------------------------------------------------- client options

\* A client is configured: the options to merge are given.
OptionsInit ==
    /\ NewConnection({PlainConfig})
    /\ wm = NoWireMessage
    /\ pool = NoPool
    /\ mergeArgs \in MergeArgLists
    /\ merged = NilPtr
    /\ validateRet = "none"
    /\ waitPc = NoWaiters

OptionsFrame ==
    UNCHANGED <<wm, pool, mergeArgs, waitPc, config, connVars, descVars,
                compVars, awaitRemainingBytes, connectVars, op, listenerVars,
                closeGhost, handleVars>>

\* MergeClientOptions(mergeArgs...)
Merge ==
    /\ merged = NilPtr
    /\ merged' = PtrTo(MergeClientOptions(mergeArgs))
    /\ UNCHANGED validateRet
    /\ OptionsFrame

\* Validate, called on the merged options.
ValidateCall ==
    /\ merged # NilPtr
    /\ validateRet = "none"
    /\ validateRet' = Validate(Deref(merged))
    /\ UNCHANGED merged
    /\ OptionsFrame

OptionsNext ==
    \/ Merge
    \/ ValidateCall

OptionsSpec == OptionsInit /\ [][OptionsNext]_vars

\* ------------------------------------------- compression of wire messages

\* CompressWireMessage, lines 722-750, called once on the handle: the bytes
\* it returns.
Compress ==
    /\ wm.pc = "idle"
    /\ ~panicked
    /\ \A t \in HandleTasks : hpc[t] = "idle"
    /\ \E src \in WireMessages \cup {ShortMessage}, dstLen \in DstLens,
          codecFails \in BOOLEAN :
          /\ codecFails => (hConnection /\ compressor # "noop" /\ ~src.short)
          /\ wm' = [pc |-> "compressed", src |-> src, dstLen |-> dstLen,
                    ret |-> IF ~hConnection
                            THEN [err |-> "ErrConnectionClosed",
                                  kept |-> dstLen, len |-> dstLen,
                                  message |-> NoMessage]
                            ELSE CompressedWireMessage(
                                     src, dstLen,
                                     [compressor |-> compressor,
                                      zliblevel |-> zliblevel,
                                      zstdLevel |-> zstdLevel], codecFails),
                    back |-> NoMessage]
    /\ UNCHANGED <<pool, optionVars, waitPc, config, connVars, descVars,
                   compVars, awaitRemainingBytes, connectVars, op,
                   listenerVars, closeGhost, handleVars>>

\* The receiver decompresses the message that CompressWireMessage appended
\* to dst.
Decompress ==
    /\ wm.pc = "compressed"
    /\ wm.ret.err = NIL
    /\ ~wm.ret.message.short
    /\ wm' = [wm EXCEPT !.pc = "decompressed",
                        !.back = DecompressWireMessage(wm.ret.message)]
    /\ UNCHANGED <<pool, optionVars, waitPc, config, connVars, descVars,
                   compVars, awaitRemainingBytes, connectVars, op,
                   listenerVars, closeGhost, handleVars>>

WireMessageInit ==
    /\ HandleInitWith(Negotiable)
    /\ NoOthers

WireMessageNext ==
    \/ Compress
    \/ Decompress
    \/ \E t \in HandleTasks : HClose(t)

WireMessageSpec == WireMessageInit /\ [][WireMessageNext]_vars

\* ================================================================ claims

\* C1: of all connect calls on one connection, at most one wins the
\* Initialized -> Connected compare-and-swap and dials; a call that loses it
\* returns nil and changes nothing of the connection, whether the winning call
\* is still running, has succeeded or has failed.
C1_ConnectOnce ==
    /\ [](casWins <= 1 /\ dialCount <= casWins /\ loserRet \in {"none", NIL})
    /\ [][/\ casWins' # casWins =>
                state = connInitialized /\ state' = connConnected
          /\ loserRet' # loserRet =>
                /\ state # connInitialized
                /\ UNCHANGED <<state, nc, sockDialed, sockDeadline,
                               ncCloseCount, descVars, awaitRemainingBytes,
                               connectDone, cpc, connectRet, casWins,
                               dialCount, op, listenerVars, closeGhost,
                               secureHandshakes, ocspCalls, helloCalls,
                               finishCalls, compVars>>]_vars

\* C1 witness: a connect call lost the swap and returned nil while the call
\* that won it was still dialing.
C1_Witness ==
    /\ casWins = 1
    /\ loserRet = NIL
    /\ \E p \in ConnectCallers : cpc[p] = "dial"

\* C2: the state only moves forward: Disconnected is never left, and
\* Connected never goes back to Initialized.
C2_StateMonotonic ==
    [][/\ state = connDisconnected => state' = connDisconnected
       /\ state = connConnected => state' # connInitialized]_vars

\* C2 witness: a Disconnected connection on which connect and a wire call
\* were made afterwards.
C2_Witness ==
    /\ state = connDisconnected
    /\ closeTransitions = 1
    /\ loserRet = NIL
    /\ op.pc = "done" /\ op.ret = "closed"

\* C3: when connect has returned an error the state is Disconnected, and the
\* socket has been closed if and only if the dial produced one.
C3_ConnectErrorDisconnects ==
    connectRet \notin {"none", NIL} =>
        /\ state = connDisconnected
        /\ sockClosed <=> sockDialed

\* C3 witness: connect failed in the handshake, after the dial produced a
\* socket.
C3_Witness ==
    /\ connectRet = "lbMismatch"
    /\ sockDialed
    /\ closeTransitions = 0

\* C4: close is idempotent: at most one close call makes the
\* Connected -> Disconnected transition and closes the socket; a call that
\* finds the state not Connected changes nothing, attempts no socket close and
\* returns nil, and after the transition the state stays Disconnected.
C4_CloseIdempotent ==
    /\ [](/\ closeTransitions <= 1
          /\ closeSockCloses <= closeTransitions
          /\ closeLoserRet \in {"none", NIL}
          /\ closeTransitions = 1 => state = connDisconnected)
    /\ [][state # connConnected =>
              UNCHANGED <<closeTransitions, closeSockCloses>>]_vars

\* C4 witness: one close call closed the socket of a Connected connection and
\* a later close call returned nil.
C4_Witness ==
    /\ closeTransitions = 1
    /\ closeSockCloses = 1
    /\ ncCloseCount = 1
    /\ connectRet = NIL
    /\ closeLoserRet = NIL

\* C5: a wire read or write called while the state is not Connected returns
\* the "connection is closed" error and touches nothing: no deadline is set,
\* no listener is started, state, socket and marker are unchanged.
C5_RejectedWhenNotConnected ==
    [][(~OpInFlight /\ op' # op /\ state # connConnected) =>
          /\ op'.pc = "done"
          /\ op'.ret = "closed"
          /\ ~op'.touched
          /\ UNCHANGED <<state, nc, sockDialed, sockDeadline, ncCloseCount,
                         awaitRemainingBytes, lst, aborted, closeGhost>>]_vars

\* C5 witness: a wire call was rejected on a connection that was never
\* connected.
C5_Witness ==
    /\ op.pc = "done"
    /\ op.ret = "closed"
    /\ state = connInitialized

\* C6: a writeWireMessage call that returned a failure of write (a socket
\* write error, or the cancellation override) leaves the connection
\* Disconnected with its socket closed.
C6_WriteFailureCloses ==
    (op.kind = "write" /\ op.pc = "done"
        /\ op.ret \notin {NIL, "closed", "setDeadline"}) =>
        /\ state = connDisconnected
        /\ sockClosed

\* C6 witness: a socket write error, with no cancellation, closed the
\* connection.
C6_Witness ==
    /\ op.kind = "write" /\ op.pc = "done"
    /\ op.ioErr = "EOF"
    /\ ~aborted
    /\ op.closeCalled
    /\ closeSockCloses = 1

\* C7: a readWireMessage call that started with no marker set and returned a
\* failure of read leaves the connection Disconnected with its socket closed,
\* unless this read timed out and recorded the outstanding byte count.
C7_ReadFailureCloses ==
    (op.kind = "read" /\ op.pc = "done" /\ op.markerWasNil
        /\ op.ret \notin {NIL, "closed", "setDeadline"}) =>
        \/ state = connDisconnected /\ sockClosed
        \/ op.setMarker /\ op.ioErr = "timeout"
              /\ awaitRemainingBytes # NilPtr

\* C7 witness: a size prefix below 4 closed the connection.
C7_Witness ==
    /\ op.kind = "read" /\ op.pc = "done"
    /\ op.ret = "malformed"
    /\ op.closeCalled
    /\ closeSockCloses = 1

\* C8: when the body read times out after n of the size - 4 body bytes, the
\* marker is set to exactly size - 4 - n, and the call returns without
\* closing: it leaves state, socket and marker as they are, so that, no close
\* call having run, the connection is Connected with its socket open.
C8_TimeoutMidBody ==
    [][/\ (op.kind = "read" /\ op.pc = "body" /\ op'.pc = "stop"
             /\ op'.ioErr = "timeout") =>
            /\ op'.n >= 0 /\ op'.n < op.size - 4
            /\ awaitRemainingBytes' = PtrTo(op.size - 4 - op'.n)
       /\ (op.kind = "read" /\ op.pc = "stop" /\ op.phase = "body"
             /\ op.ioErr = "timeout" /\ op'.pc = "done") =>
            /\ ~op'.closeCalled
            /\ UNCHANGED <<state, nc, ncCloseCount, awaitRemainingBytes>>
            /\ closeTransitions = 0 =>
                  state' = connConnected /\ ncCloseCount' = 0]_vars

\* C8 witness: size 100, no body byte received: the call returned with the
\* marker at 96 and the connection Connected, its socket open.
C8_Witness ==
    /\ op.kind = "read" /\ op.pc = "done"
    /\ op.phase = "body" /\ op.ioErr = "timeout"
    /\ awaitRemainingBytes = PtrTo(96)
    /\ state = connConnected
    /\ ~sockClosed

\* The maximum message size in force.
MaxInForce ==
    IF desc.MaxMessageSize = 0 THEN defaultMaxMessageSize
    ELSE desc.MaxMessageSize

\* A prefix value below 4 or above the maximum in force, read as an unsigned
\* or as a signed number.
BadPrefix(u) == u.hi = 1 \/ u.lo < 4 \/ u.lo > MaxInForce

\* C9: for a size prefix below 4 or above the maximum in force, the read
\* never reaches the body read and the call returns an error.
C9_NoBodyReadOnBadSize ==
    /\ []((op.kind = "read" /\ op.pc \in {"body", "stop"}
             /\ (op.phase = "body" \/ (op.phase = "hdr" /\ op.n = 4))
             /\ BadPrefix(op.rawSize)) =>
            /\ op.pc = "stop"
            /\ ~op.bodyAttempt
            /\ op.ioErr \in {"malformed", "tooLarge"})
    /\ [][(op.kind = "read" /\ op.pc = "stop" /\ op'.pc = "done"
             /\ op.ioErr \in {"malformed", "tooLarge"}) =>
            op'.ret # NIL /\ ~op'.bodyAttempt]_vars

\* C9 witness: a prefix one above the negotiated maximum was rejected before
\* the body read.
C9_Witness ==
    /\ op.kind = "read" /\ op.pc = "stop"
    /\ desc.MaxMessageSize = NegotiatedMaxMessageSize
    /\ op.rawSize = [hi |-> 0, lo |-> NegotiatedMaxMessageSize + 1]
    /\ op.ioErr = "tooLarge"
    /\ ~op.bodyAttempt

\* C10: a wire call returns success only if the listener did not abort during
\* it; when the listener aborted after the socket call succeeded, the call
\* returns the cancellation error.
C10_AbortedNeverSuccess ==
    (op.pc = "done" /\ op.ret \notin {"closed", "setDeadline"}) =>
        /\ op.ret = NIL => ~aborted
        /\ (aborted /\ op.ioErr = NIL) => op.ret = "Canceled"

\* C10 witness: the socket write succeeded, the listener then aborted, and
\* the write returned the cancellation error.
C10_Witness ==
    /\ op.kind = "write" /\ op.pc = "done"
    /\ op.ioErr = NIL
    /\ aborted
    /\ op.ret = "Canceled"

\* The compressor names ClientOptions.SetCompressors documents as valid.
ValidCompressors == {"snappy", "zlib", "zstd"}

\* The i-th configured compressor is also advertised by the server.
Shared(i) ==
    \E j \in 1..Len(desc.Compression) :
        config.compressors[i] = desc.Compression[j]

\* The position, in the client's order, of the first configured compressor
\* the server advertises: at most one.
FirstShared ==
    {i \in 1..Len(config.compressors) :
        Shared(i) /\ \A k \in 1..(i - 1) : ~Shared(k)}

\* C17: after a successful connect the selected compressor is the first
\* entry of the client's list that the server advertises, with the configured
\* level, or the default level when none is configured, for zlib and zstd;
\* when the lists share no entry no compressor is selected.
C17_FirstSharedCompressor ==
    (connectRet = NIL /\ config.handshaker) =>
        /\ FirstShared = {} => compressor = "noop"
        /\ \A i \in FirstShared :
              config.compressors[i] \in ValidCompressors =>
                  /\ compressor = config.compressors[i]
                  /\ compressor = "zlib" =>
                        zliblevel = IF config.zlibLevel = NilPtr
                                    THEN DefaultZlibLevel
                                    ELSE CHOOSE l \in config.zlibLevel : TRUE
                  /\ compressor = "zstd" =>
                        zstdLevel = IF config.zstdLevel = NilPtr
                                    THEN DefaultZstdLevel
                                    ELSE CHOOSE l \in config.zstdLevel : TRUE

\* C17 witness: client [zstd, zlib, snappy] with zlib level 9, server
\* [zlib, snappy]: zlib is selected at level 9.
C17_Witness ==
    /\ connectRet = NIL
    /\ config.compressors = <<"zstd", "zlib", "snappy">>
    /\ desc.Compression = <<"zlib", "snappy">>
    /\ compressor = "zlib"
    /\ zliblevel = 9

\* C18: in load-balanced mode FinishHandshake and the generation callback
\* are reached only with a description that has a service id; a hello that
\* succeeds without one makes connect fail with the state-mismatch error,
\* with FinishHandshake and the generation callback never invoked, the state
\* Disconnected and the socket closed.
C18_LoadBalancedMismatch ==
    /\ [](/\ (/\ config.loadBalanced
               /\ \/ \E p \in ConnectCallers : cpc[p] = "finish"
                  \/ finishCalls > 0
                  \/ genCalls > 0) => desc.ServiceID
          /\ connectRet = "lbMismatch" =>
                /\ config.loadBalanced /\ ~desc.ServiceID
                /\ finishCalls = 0
                /\ genCalls = 0
                /\ state = connDisconnected
                /\ sockClosed)
    /\ [][\A p \in ConnectCallers :
              (cpc[p] = "hello" /\ cpc'[p] = "idle") =>
                  connectRet' \in {"handshake", "lbMismatch"}]_vars

\* C18 witness: the hello succeeded, its description (maximum message size
\* 100) was stored, and connect failed with the state-mismatch error.
C18_Witness ==
    /\ connectRet = "lbMismatch"
    /\ desc.MaxMessageSize = NegotiatedMaxMessageSize
    /\ ~desc.ServiceID
    /\ finishCalls = 0 /\ genCalls = 0
    /\ state = connDisconnected /\ ncCloseCount = 1

\* C19: the generation callback is invoked at most once and the generation,
\* once set, never changes; without load balancing the callback has been
\* invoked at construction, with no service id; with load balancing it is
\* invoked only by connect as it goes from the hello to FinishHandshake, the
\* description having a service id, which is the callback's argument.
C19_GenerationOnce ==
    /\ [](/\ genCalls <= 1
          /\ ~config.loadBalanced => genCalls = 1 /\ genArg = NIL
          /\ (config.loadBalanced /\ genCalls = 0) => genArg = "unset"
          /\ (config.loadBalanced /\ genCalls = 1) =>
                desc.ServiceID /\ genArg = "serviceID")
    /\ [][/\ genCalls >= 1 => generation' = generation
          /\ genCalls' # genCalls =>
                /\ config.loadBalanced
                /\ desc'.ServiceID
                /\ \E p \in ConnectCallers :
                      cpc[p] = "hello" /\ cpc'[p] = "finish"]_vars

\* C19 witness: a load-balanced connect succeeded after one invocation of
\* the callback with the service id.
C19_Witness ==
    /\ config.loadBalanced
    /\ connectRet = NIL
    /\ genCalls = 1
    /\ genArg = "serviceID"
    /\ generation \in Generations

\* C20: in one connect at most one of the TLS and TLCP handshakes is
\* performed on the socket, whatever the configuration.
C20_SecureTransportExclusive ==
    secureHandshakes.tls + secureHandshakes.tlcp <= 1

\* Invocations of the pool's pin callbacks, and of their inverses.
PinCallbacks == poolCalls.pin["cursor"] + poolCalls.pin["transaction"]

UnpinCallbacks == poolCalls.unpin["cursor"] + poolCalls.unpin["transaction"]

\* C11: the pool's pin callback fires exactly once at each step that takes
\* the pin count from 0 to 1, and at no other step, and its inverse fires
\* exactly once at each step that takes the count from 1 back to 0.
C11_PinAccounting ==
    [][/\ (refCount = 0 /\ refCount' = 1) => PinCallbacks' = PinCallbacks + 1
       /\ PinCallbacks' # PinCallbacks => refCount = 0 /\ refCount' = 1
       /\ (refCount = 1 /\ refCount' = 0) =>
              UnpinCallbacks' = UnpinCallbacks + 1]_vars

\* C12: a step that decrements the pin count is the unpin of a reason that
\* holds a unit of the count, contributed by the pin of the same reason.
C12_UnpinSameReason ==
    [][refCount' < refCount =>
          \E r \in Reasons : hlast'.name = UnpinName(r) /\ pinsBy[r] > 0]_vars

\* The step is the return of an unpin call for reason r.
UnpinStep(r) ==
    /\ hlast'.name = UnpinName(r)
    /\ hlast' # hlast \/ refCount' # refCount

\* C13: the pin count is never negative: an unpin on a live handle whose
\* count is 0 returns an error and leaves the count at 0, an unpin on a
\* released handle returns nil and changes nothing, and any other unpin
\* takes one from the count.
C13_PinCountNeverNegative ==
    /\ [](refCount >= 0)
    /\ [][\A r \in Reasons : UnpinStep(r) =>
              IF ~hConnection
              THEN /\ hlast'.ret = NIL
                   /\ UNCHANGED <<hConnection, refCount, cleanupPoolFn,
                                  cleanupServerFn, poolCalls, checkIns,
                                  serverCleanups, state, ncCloseCount>>
              ELSE IF refCount = 0
              THEN hlast'.ret = "notPinned" /\ refCount' = 0
              ELSE hlast'.ret = NIL /\ refCount' = refCount - 1]_vars

\* C13 witness: after a pin and its unpin, a further unpin on the live
\* handle failed with the count at 0.
C13_Witness ==
    /\ hlast = [name |-> "UnpinFromTransaction", ret |-> "notPinned"]
    /\ hConnection
    /\ refCount = 0
    /\ poolCalls.pin["cursor"] = 1

\* The step is the return of a Close, or of an Expire, call.
CloseStep ==
    /\ hlast'.name = "Close"
    /\ hlast' # hlast \/ hConnection' # hConnection

ExpireStep ==
    /\ hlast'.name = "Expire"
    /\ hlast' # hlast \/ hConnection' # hConnection

\* What a release changes.
ReleaseVars ==
    <<hConnection, cleanupPoolFn, cleanupServerFn, poolCalls, checkIns,
      serverCleanups, state, ncCloseCount>>

\* C14: the connection is checked in at most once, and exactly when the
\* handle has released it. Close does nothing and returns nil while the pin
\* count is above 0 or after the release, and otherwise checks in; Expire
\* does nothing and returns nil after the release, and otherwise, whatever
\* the pin count, leaves the connection Disconnected with its socket closed
\* and checks in.
C14_CheckedInAtMostOnce ==
    /\ [](checkIns <= 1 /\ (checkIns = 1 <=> ~hConnection))
    /\ [][/\ CloseStep =>
                IF ~hConnection \/ refCount > 0
                THEN hlast'.ret = NIL /\ UNCHANGED ReleaseVars
                ELSE checkIns' = checkIns + 1 /\ ~hConnection'
          /\ ExpireStep =>
                IF ~hConnection
                THEN hlast'.ret = NIL /\ UNCHANGED ReleaseVars
                ELSE /\ state' = connDisconnected
                     /\ ncCloseCount' > 0
                     /\ checkIns' = checkIns + 1
                     /\ ~hConnection']_vars

\* C14 witness: Expire released the handle while it was pinned and closed
\* the socket; a later Close returned nil.
C14_Witness ==
    /\ hlast = [name |-> "Close", ret |-> NIL]
    /\ ~hConnection
    /\ refCount > 0
    /\ checkIns = 1
    /\ closeTransitions = 1
    /\ ncCloseCount = 1

\* C15: on a released handle every operation returns its closed result:
\* ErrConnectionClosed from Write, Read and CompressWireMessage, a
\* placeholder from Description, ID and Address, nil from Close, Expire and
\* the unpins, the "already returned to the pool" error from the pins; and
\* none, Stale and DriverConnectionID included, fails in another way.
C15_ReleasedHandleOps ==
    [][(~hConnection /\ hlast' # hlast) =>
          /\ hlast'.name \in {"Write", "Read", "CompressWireMessage"} =>
                hlast'.ret = "ErrConnectionClosed"
          /\ hlast'.name \in DescribeOps => hlast'.ret = "placeholder"
          /\ hlast'.name \in {"Close", "Expire"}
                                \cup {UnpinName(r) : r \in Reasons} =>
                hlast'.ret = NIL
          /\ hlast'.name \in {PinName(r) : r \in Reasons} =>
                hlast'.ret = "alreadyReturned"
          /\ hlast'.ret # "panic"
          /\ ~panicked']_vars

\* C16: no Write or Read is delegated to a connection the handle has checked
\* in, and at the step that releases the connection no task is inside a
\* handle operation that has read or is using it.
C16_SerializedWithRelease ==
    /\ []((\E t \in HandleTasks : hpc[t] \in DelegatedOps) => hConnection)
    /\ [][(hConnection /\ ~hConnection') =>
              \A t \in HandleTasks : hpc[t] = "idle"]_vars

\* A connect call takes the step it is at in cpc.
ConnectStep(p, pc) == cpc[p] = pc /\ cpc'[p] # pc

\* C21: OCSP verification is invoked in a connect exactly when a TLS
\* configuration is present, its handshake succeeded and certificate
\* verification is not disabled; it is invoked at most once, by the TLS step
\* and never by the TLCP step; and when the verification fails connect
\* returns the error with the handshaker never called, the state
\* Disconnected and the socket closed.
C21_OCSPVerification ==
    /\ [](/\ ocspCalls <= 1
          /\ ocspCalls = 1 =>
                /\ config.tlsConfig /\ ~config.insecureSkipVerify
                /\ secureHandshakes.tls = 1
                /\ connectRet # "tls"
          /\ connectRet = "ocsp" =>
                /\ ocspCalls = 1
                /\ helloCalls = 0 /\ finishCalls = 0
                /\ secureHandshakes.tlcp = 0
                /\ state = connDisconnected
                /\ sockClosed)
    /\ [][/\ \A p \in ConnectCallers :
                ConnectStep(p, "tls") =>
                    (ocspCalls' = ocspCalls + 1 <=>
                        /\ connectRet' # "tls"
                        /\ ~config.insecureSkipVerify)
          /\ ocspCalls' # ocspCalls =>
                \E p \in ConnectCallers : ConnectStep(p, "tls")]_vars

\* C21 witness: with a handshaker configured, the TLS handshake succeeded,
\* the OCSP verification failed and connect returned without calling the
\* handshaker.
C21_Witness ==
    /\ config.tlsConfig /\ config.handshaker
    /\ connectRet = "ocsp"
    /\ ocspCalls = 1
    /\ helloCalls = 0
    /\ state = connDisconnected

\* C21 witness of the other side: certificate verification is disabled, the
\* TLS handshake succeeded and connect went on without OCSP verification.
C21_WitnessSkipped ==
    /\ config.insecureSkipVerify
    /\ secureHandshakes.tls = 1
    /\ ocspCalls = 0
    /\ helloCalls = 1

\* A wire call returns from its socket calls: the step that classifies the
\* error.
WireReturnStep == op.pc = "stop" /\ op'.pc = "done"

\* C22: the cause a read or write surfaces is classified with this
\* priority: no error stays no error; with the context cancelled the cause
\* is the cancellation error, whatever the deadline and the socket error;
\* otherwise a timeout under a context deadline becomes deadline-exceeded;
\* otherwise the original error is returned unchanged.
C22_CausePriority ==
    [][WireReturnStep =>
          LET err == IF aborted /\ op.ioErr = NIL THEN "Canceled"
                     ELSE op.ioErr
          IN  /\ err = NIL => op'.ret = NIL
              /\ (err # NIL /\ ctxCancelled) => op'.ret = "Canceled"
              /\ (err = "timeout" /\ ~ctxCancelled /\ op.hasDeadline) =>
                    op'.ret = "DeadlineExceeded"
              /\ (err # NIL /\ ~ctxCancelled
                    /\ ~(err = "timeout" /\ op.hasDeadline)) =>
                    op'.ret = err]_vars

\* C22 witness: a call whose socket error was a timeout returned
\* deadline-exceeded (its context had a deadline and was not cancelled).
C22_Witness ==
    /\ op.pc = "done"
    /\ op.ioErr = "timeout"
    /\ op.ret = "DeadlineExceeded"

\* C22 witness of the cancellation case: the socket error was a timeout and
\* the call returned the cancellation error.
C22_WitnessCancelled ==
    /\ op.pc = "done"
    /\ op.ioErr = "timeout"
    /\ op.ret = "Canceled"

\* C23: for every wire message of at least 16 bytes and every negotiated
\* compressor, what CompressWireMessage appends to dst is an envelope with
\* the compressed opcode that, decompressed, is identical to the input:
\* the same header with the original opcode and total length, and the same
\* body; the bytes already in dst are kept in front of it.
C23_CompressRoundTrip ==
    /\ (wm.pc \in {"compressed", "decompressed"} /\ wm.ret.err = NIL) =>
          /\ wm.ret.kept = wm.dstLen
          /\ (compressor # "noop") =>
                /\ wm.ret.message.opcode = "OP_COMPRESSED"
                /\ wm.ret.message.compressorID = compressor
                /\ wm.ret.message.length =
                       25 + Len(wm.ret.message.compressed)
    /\ (wm.pc = "decompressed" /\ ~wm.src.short) =>
          /\ wm.back = wm.src
          /\ wm.back.opcode = wm.src.opcode
          /\ wm.back.length = 16 + Len(wm.src.body)

\* C23 witness: a message with a two-byte body was compressed with zlib at
\* level 9 behind three bytes already in dst, and decompressed.
C23_Witness ==
    /\ wm.pc = "decompressed"
    /\ compressor = "zlib" /\ zliblevel = 9
    /\ wm.dstLen = 3
    /\ wm.src.opcode = "OP_QUERY"
    /\ wm.src.body = <<0, 1>>
    /\ wm.ret.message.opcode = "OP_COMPRESSED"

\* The checkout of caller c returns in this step.
CheckOutReturns(c) == pool.wait[c] /\ ~pool'.wait[c]

MarkerSetOnlyByTimedOutRead ==
    [][/\ awaitRemainingBytes' # awaitRemainingBytes =>
             /\ op.kind = "read"
             /\ op.pc \in {"io", "body"}
             /\ op'.pc = "stop"
             /\ op'.ioErr = "timeout"
             /\ awaitRemainingBytes' # NilPtr
       /\ awaitRemainingBytes # NilPtr => awaitRemainingBytes' # NilPtr]_vars

\* C25, as stated: the marker is non-nil only if the most recent read failed
\* with a timeout; it is nil again once a later read on the connection has
\* completed.
C25_MarkerNilAfterLaterRead ==
    (op.kind = "read" /\ op.pc = "done" /\ op.ret = NIL) =>
        awaitRemainingBytes = NilPtr

\* C25, amended: the marker is nil at construction and stays nil until a
\* read times out; it is set only by the socket step of a read that failed
\* with a timeout (never by EOF, a framing error or the error of a socket
\* closed on cancellation); once set, nothing the connection does clears it:
\* it is still set after later reads, successful or not, until the pool
\* reconciles the socket.
C25_MarkerSetByTimeoutKept ==
    /\ awaitRemainingBytes = NilPtr
    /\ MarkerSetOnlyByTimedOutRead

\* C25 witness: after a read that timed out and set the marker, a later
\* read on the connection has completed without error and the marker is
\* still set.
C25_Witness ==
    /\ op.kind = "read"
    /\ op.pc = "done"
    /\ op.ret = NIL
    /\ op.markerWasNil = FALSE
    /\ awaitRemainingBytes # NilPtr
    /\ state = connConnected

\* The options Validate was called on.
Validated == Deref(merged)

C26_WitnessRejected ==
    /\ validateRet = "ErrLoadBalancedWithDirectConnection"
    /\ Validated.LoadBalanced = PtrTo(TRUE)
    /\ Validated.Direct = PtrTo(TRUE)

\* The arguments of the merge that are not nil and set field f.
Setters(f) ==
    {i \in 1..Len(mergeArgs) :
        mergeArgs[i] # NilPtr /\ Deref(mergeArgs[i])[f] # NilPtr}

\* The last of a set of argument positions.
Last(S) == CHOOSE i \in S : \A j \in S : j <= i

\* C27: MergeClientOptions is last-one-wins per field: the merged options
\* carry, for every field, the value of the last non-nil argument that set
\* it, so that an earlier value survives only when no later argument set
\* the field; nil arguments are skipped; a field that no argument set is
\* not set in the result, except for the HTTP client, which Client()
\* presets when the arguments are not exactly one.
C27_LastOneWins ==
    merged # NilPtr =>
        \A f \in OptionFields :
            IF Setters(f) # {}
            THEN Deref(merged)[f] = Deref(mergeArgs[Last(Setters(f))])[f]
            ELSE \/ Deref(merged)[f] = NilPtr
                 \/ /\ f = "HTTPClient"
                    /\ Deref(merged)[f] = PtrTo("DefaultHTTPClient")
                    /\ \/ Len(mergeArgs) # 1
                       \/ mergeArgs[1] = NilPtr

\* C27 witness: both arguments set Direct, to different values, and only
\* the first sets the replica set name; the merged options carry the
\* second's Direct and the first's replica set name.
C27_Witness ==
    /\ merged # NilPtr
    /\ Len(mergeArgs) = 2
    /\ Setters("Direct") = {1, 2}
    /\ Setters("ReplicaSet") = {1}
    /\ Deref(mergeArgs[1]).Direct = PtrTo(TRUE)
    /\ Deref(merged).Direct = PtrTo(FALSE)
    /\ Deref(merged).ReplicaSet = PtrTo("rs0")

\* C27 witness with a nil argument: it is skipped.
C27_WitnessNilSkipped ==
    /\ merged # NilPtr
    /\ Len(mergeArgs) = 2
    /\ mergeArgs[2] = NilPtr
    /\ Setters("err") = {1}
    /\ Deref(merged).err = PtrTo("uriErr2")

\* The transport connect has when both secure transports have run that are
\* configured.
TransportDone ==
    IF config.tlcpConfig THEN "tlcp"
    ELSE IF config.tlsConfig THEN "tls" ELSE "raw"

\* No step of connect after the secure transport has run.
NoHandshakeYet ==
    helloCalls = 0 /\ finishCalls = 0 /\ compressor = "noop"

\* C28: in every connect the steps occur in the order dial,
\* secure-transport handshake, GetHandshakeInformation, FinishHandshake,
\* compressor selection, each at most once and each only when every
\* earlier step has succeeded: FinishHandshake is never invoked when
\* GetHandshakeInformation failed, and a compressor is selected only in a
\* connect that returns no error.
C28_ConnectStepOrder ==
    /\ [](/\ dialCount <= 1 /\ secureHandshakes.tls <= 1
          /\ secureHandshakes.tlcp <= 1 /\ helloCalls <= 1
          /\ finishCalls <= 1
          /\ connectRet = "dial" =>
                secureHandshakes = [tls |-> 0, tlcp |-> 0] /\ NoHandshakeYet
          /\ connectRet \in {"tls", "ocsp"} =>
                secureHandshakes.tlcp = 0 /\ NoHandshakeYet
          /\ connectRet = "tlcp" => NoHandshakeYet
          /\ connectRet \in {"handshake", "lbMismatch"} =>
                finishCalls = 0 /\ compressor = "noop"
          /\ connectRet = "finishHandshake" => compressor = "noop"
          /\ compressor # "noop" => connectRet = NIL /\ finishCalls = 1)
    /\ [][\A p \in ConnectCallers :
              /\ ConnectStep(p, "tls") =>
                    /\ dialCount = 1 /\ nc = "raw"
                    /\ secureHandshakes = [tls |-> 0, tlcp |-> 0]
                    /\ NoHandshakeYet
              /\ ConnectStep(p, "tlcp") =>
                    /\ dialCount = 1
                    /\ nc = IF config.tlsConfig THEN "tls" ELSE "raw"
                    /\ secureHandshakes.tls = IF config.tlsConfig THEN 1 ELSE 0
                    /\ secureHandshakes.tlcp = 0
                    /\ NoHandshakeYet
              /\ ConnectStep(p, "hello") =>
                    /\ dialCount = 1 /\ nc = TransportDone
                    /\ secureHandshakes.tls = IF config.tlsConfig THEN 1 ELSE 0
                    /\ secureHandshakes.tlcp =
                           IF config.tlcpConfig THEN 1 ELSE 0
                    /\ NoHandshakeYet
              /\ ConnectStep(p, "finish") =>
                    /\ helloCalls = 1 /\ finishCalls = 0
                    /\ connectRet = "none"
                    /\ compressor = "noop"
              /\ cpc[p] # "idle" => connectRet = "none"]_vars
    /\ [][/\ dialCount' # dialCount =>
                \E p \in ConnectCallers : ConnectStep(p, "dial")
          /\ secureHandshakes'.tls # secureHandshakes.tls =>
                \E p \in ConnectCallers : ConnectStep(p, "tls")
          /\ secureHandshakes'.tlcp # secureHandshakes.tlcp =>
                \E p \in ConnectCallers : ConnectStep(p, "tlcp")
          /\ helloCalls' # helloCalls =>
                \E p \in ConnectCallers : ConnectStep(p, "hello")
          /\ finishCalls' # finishCalls =>
                \E p \in ConnectCallers : ConnectStep(p, "finish")
          /\ compressor' # compressor =>
                /\ \E p \in ConnectCallers : ConnectStep(p, "finish")
                /\ connectRet' = NIL]_vars

\* C28 witness: a connect with TLS and a handshaker ran every step once,
\* selected zlib and returned nil.
C28_Witness ==
    /\ config.tlsConfig /\ ~config.tlcpConfig /\ config.handshaker
    /\ connectRet = NIL
    /\ dialCount = 1
    /\ secureHandshakes.tls = 1
    /\ helloCalls = 1
    /\ finishCalls = 1
    /\ compressor = "zlib"

\* C28 witness of a failed hello: GetHandshakeInformation failed and connect
\* returned without FinishHandshake.
C28_WitnessHelloFailed ==
    /\ connectRet = "handshake"
    /\ helloCalls = 1
    /\ finishCalls = 0
    /\ state = connDisconnected

\* The read of the size prefix fails with a timeout in this step.
PrefixTimeoutStep ==
    /\ op.kind = "read" /\ op.pc = "io"
    /\ op'.pc = "stop" /\ op'.phase = "hdr"
    /\ op'.ioErr = "timeout"

\* readWireMessage returns from a read whose size prefix timed out.
PrefixTimeoutReturn ==
    /\ WireReturnStep
    /\ op.kind = "read" /\ op.phase = "hdr"
    /\ op.ioErr = "timeout"

\* C29, as stated: when the read of the size prefix fails with a timeout,
\* for any number (0 to 3) of prefix bytes consumed, the marker is set to 0
\* and the connection is not closed.
C29_PrefixTimeoutAnyCount ==
    [][/\ PrefixTimeoutStep => awaitRemainingBytes' = PtrTo(0)
       /\ PrefixTimeoutReturn =>
             ~op'.closeCalled /\ state' = state]_vars

\* C29, amended: when the read of the size prefix fails with a timeout and
\* no prefix byte has been consumed, the marker is set to 0 and the
\* connection is not closed; when 1 to 3 prefix bytes have been consumed the
\* marker is left as it was, and the connection is closed unless an earlier
\* read had set the marker.
C29_PrefixTimeoutNothingRead ==
    [][/\ PrefixTimeoutStep =>
             /\ op'.n \in 0..3
             /\ op'.n = 0 => awaitRemainingBytes' = PtrTo(0)
             /\ op'.n > 0 => awaitRemainingBytes' = awaitRemainingBytes
       /\ PrefixTimeoutReturn =>
             /\ op.n = 0 => ~op'.closeCalled /\ state' = state
             /\ (op.n > 0 /\ op.markerWasNil) =>
                   /\ op'.closeCalled
                   /\ state' = connDisconnected]_vars

\* C29 witness: the prefix read timed out with nothing consumed; the read
\* has returned, the marker is 0 and the connection is still connected.
C29_Witness ==
    /\ op.kind = "read" /\ op.pc = "done"
    /\ op.phase = "hdr" /\ op.ioErr = "timeout"
    /\ op.markerWasNil /\ op.setMarker
    /\ ~op.closeCalled
    /\ awaitRemainingBytes = PtrTo(0)
    /\ state = connConnected

\* C29 witness of the other case: the prefix read timed out after some of
\* its bytes; the read has returned, no marker is set and the connection
\* has been closed.
C29_WitnessClosed ==
    /\ op.kind = "read" /\ op.pc = "done"
    /\ op.phase = "hdr" /\ op.ioErr = "timeout"
    /\ ~op.setMarker
    /\ op.closeCalled
    /\ awaitRemainingBytes = NilPtr
    /\ state = connDisconnected

\* The read of the size prefix gets all four bytes in this step.
PrefixReadStep ==
    /\ op.kind = "read" /\ op.pc = "io"
    /\ op'.phase = "hdr" /\ op'.n = 4

\* C30: every prefix value is classified, read as a signed 32-bit number,
\* into exactly one outcome: below 4, which includes every value with the
\* high bit set, it is rejected as a malformed length; above the maximum in
\* force (the negotiated maximum, or 48000000 when that is 0) it is rejected
\* as too large; otherwise, the maximum itself included, it is accepted, and
\* a full read returns a message of exactly that many bytes whose first four
\* bytes are the prefix.
C30_PrefixClassified ==
    /\ [][PrefixReadStep =>
             LET u == op'.rawSize
             IN  IF u.hi = 1 \/ u.lo < 4
                 THEN op'.pc = "stop" /\ op'.ioErr = "malformed"
                 ELSE IF u.lo > MaxInForce
                 THEN op'.pc = "stop" /\ op'.ioErr = "tooLarge"
                 ELSE /\ op'.pc = "body" /\ op'.ioErr = NIL
                      /\ op'.size = u.lo]_vars
    /\ []((op.kind = "read" /\ op.pc = "stop" /\ op.phase = "body"
             /\ op.ioErr = NIL) =>
            /\ op.rawSize.hi = 0
            /\ op.rawSize.lo >= 4 /\ op.rawSize.lo <= MaxInForce
            /\ op.dst.len = op.rawSize.lo
            /\ 4 + op.n = op.dst.len
            /\ op.dst.prefix = op.rawSize)

\* C30 witness: a prefix equal to the negotiated maximum was accepted and
\* the whole message has been read.
C30_Witness ==
    /\ op.kind = "read" /\ op.pc = "stop" /\ op.phase = "body"
    /\ op.ioErr = NIL
    /\ desc.MaxMessageSize = NegotiatedMaxMessageSize
    /\ op.rawSize = [hi |-> 0, lo |-> NegotiatedMaxMessageSize]
    /\ op.dst.len = NegotiatedMaxMessageSize
    /\ op.n = NegotiatedMaxMessageSize - 4

\* C30 witness with no negotiated maximum: a prefix of 48000000 was
\* accepted.
C30_WitnessDefaultMax ==
    /\ op.kind = "read" /\ op.pc = "body"
    /\ desc.MaxMessageSize = 0
    /\ op.rawSize = [hi |-> 0, lo |-> defaultMaxMessageSize]

\* C30 witness of a value with the high bit set: rejected as malformed.
C30_WitnessHighBit ==
    /\ op.kind = "read" /\ op.pc = "stop" /\ op.phase = "hdr"
    /\ op.rawSize.hi = 1
    /\ op.ioErr = "malformed"

\* The wire call in flight is doing, or has done, its socket I/O.
InIO == op.pc \in {"io", "body", "stop"}

\* C31: a context deadline applies to exactly the one read or write it was
\* passed to. While a wire call does its I/O, the socket deadline of its
\* direction is the deadline of its own context, or none when that context
\* has none: never one left behind by an earlier call. The deadline of the
\* other direction, and both deadlines while no call is in flight, are never
\* those of a call in flight.
C31_DeadlineOfOwnCall ==
    /\ InIO =>
          /\ sockDeadline[op.kind] =
                 IF op.hasDeadline THEN "own" ELSE "none"
          /\ \A k \in {"read", "write"} \ {op.kind} : sockDeadline[k] # "own"
    /\ ~InIO => \A k \in {"read", "write"} : sockDeadline[k] # "own"

\* A call whose context has no deadline has removed the deadline an earlier
\* call of the same direction left on the socket.
C31_Witness ==
    /\ op.pc = "io"
    /\ ~op.hasDeadline
    /\ op.deadlineWas = "earlier"
    /\ sockDeadline[op.kind] = "none"

\* A call with a deadline has replaced the one an earlier call left.
C31_WitnessReplaced ==
    /\ op.pc = "io"
    /\ op.kind = "read"
    /\ op.hasDeadline
    /\ op.deadlineWas = "earlier"
    /\ sockDeadline.read = "own"
    /\ sockDeadline.write = "earlier"

\* C32: the cancellation listener is active only while one read or write
\* does its socket I/O. It is idle before the call starts it and idle again
\* whenever a call has returned, whatever the call returned; a call starts it
\* only when it is idle, so at most one is active; it fires only during the
\* I/O of a call; and while the context of a call that has returned is
\* cancelled, nothing changes the listener or its aborted flag, so that
\* cancellation closes nothing.
C32_ListenerOnlyDuringIO ==
    /\ [](lst # "idle" => InIO)
    /\ [][/\ (op.pc = "deadline" /\ op'.pc = "io") => lst = "idle"
          /\ (lst # "fired" /\ lst' = "fired") => InIO
          /\ (op.pc = "done" /\ ctxCancelled) => UNCHANGED <<lst, aborted>>
         ]_vars

\* A context cancelled after its read or write returned without error: the
\* connection is still Connected and its socket open.
C32_Witness ==
    /\ op.pc = "done"
    /\ op.ret = NIL
    /\ op.touched
    /\ ctxCancelled
    /\ lst = "idle"
    /\ state = connConnected
    /\ ~sockClosed

\* A call has returned an error after its listener fired: the listener is
\* idle again.
C32_WitnessFired ==
    /\ op.pc = "done"
    /\ op.ret = "Canceled"
    /\ aborted
    /\ lst = "idle"

\* A call has returned a socket error that is not a cancellation, and its
\* context is cancelled afterwards.
C32_WitnessErrorPath ==
    /\ op.pc = "done"
    /\ op.ret = "EOF"
    /\ ~aborted
    /\ ctxCancelled
    /\ lst = "idle"

\* The transport connect leaves in c.nc when every configured setup step
\* succeeded.
TransportConfigured ==
    IF config.tlcpConfig THEN "tlcp" ELSE IF config.tlsConfig THEN "tls"
    ELSE "raw"

\* C33: with no handshaker configured, connect performs no hello exchange
\* and never assigns the server description, the server connection id, the
\* generation or the compressor; it fails only on the dial or the secure
\* transport, and when those succeeded it has returned nil with the state
\* Connected and the socket open.
C33_NoHandshakerEarlyReturn ==
    /\ [](~config.handshaker =>
            /\ helloCalls = 0 /\ finishCalls = 0
            /\ desc = EmptyDesc
            /\ serverConnectionID = NilPtr
            /\ compressor = "noop" /\ zliblevel = 0 /\ zstdLevel = 0
            /\ config.loadBalanced => generation = 0 /\ genCalls = 0
            /\ connectDone =>
                  /\ connectRet \in {NIL, "dial", "tls", "ocsp", "tlcp"}
                  /\ nc = TransportConfigured => connectRet = NIL
                  /\ connectRet = NIL =>
                        /\ state = connConnected
                        /\ nc = TransportConfigured
                        /\ ~sockClosed)
    /\ [][~config.handshaker => UNCHANGED <<descVars, compVars>>]_vars

\* connect has returned nil on a load-balanced connection with TLS and a
\* configured compressor, and without a handshaker.
C33_Witness ==
    /\ ~config.handshaker
    /\ config.loadBalanced
    /\ config.compressors # <<>>
    /\ connectDone
    /\ connectRet = NIL
    /\ nc = "tls"
    /\ state = connConnected
    /\ generation = 0

\* CompressWireMessage has returned from a call on a live handle.
CompressReturned ==
    /\ wm.pc \in {"compressed", "decompressed"}
    /\ wm.ret.err # "ErrConnectionClosed"

\* The result is dst followed by the compressed envelope of src.
EnvelopeAppended ==
    LET r == wm.ret
        m == r.message
    IN  /\ r.err = NIL
        /\ r.kept = wm.dstLen
        /\ ~m.short
        /\ m.requestID = wm.src.requestID
        /\ m.responseTo = wm.src.responseTo
        /\ m.opcode = "OP_COMPRESSED"
        /\ m.originalOpcode = wm.src.opcode
        /\ m.uncompressedSize = wm.src.length - 16
        /\ m.compressorID = compressor
        /\ m.compressed =
               CompressPayload(wm.src.body,
                               [Compressor |-> compressor,
                                ZlibLevel |-> zliblevel,
                                ZstdLevel |-> zstdLevel])
        /\ r.len = wm.dstLen + 25 + Len(m.compressed)
        /\ m.length = r.len - wm.dstLen

\* The two cases that do not compress: without a negotiated compressor the
\* result is dst followed by a copy of src, whatever its length; with a
\* compressor and a source shorter than the header, an error and dst.
CopiedOrTooShort ==
    LET r == wm.ret
    IN  /\ compressor = "noop" =>
              /\ r.err = NIL
              /\ r.kept = wm.dstLen
              /\ r.message = wm.src
              /\ r.len = wm.dstLen + wm.src.length
        /\ (compressor # "noop" /\ wm.src.short) =>
              /\ r.err = "tooShort"
              /\ r.kept = wm.dstLen
              /\ r.len = wm.dstLen

\* C34 as stated: with a negotiated compressor and a source of at least 16
\* bytes the result is always dst followed by the envelope.
C34_AlwaysEnvelope ==
    CompressReturned =>
        /\ CopiedOrTooShort
        /\ (compressor # "noop" /\ ~wm.src.short) => EnvelopeAppended

\* C34: CompressWireMessage on a live handle copies src behind dst when no
\* compressor is negotiated, returns an error and dst for a source shorter
\* than the header, and otherwise either appends to dst one envelope (the
\* request id and response-to of src, opcode Compressed, then the original
\* opcode, the uncompressed size len(src) - 16, the compressor id and the
\* compressed payload, its length field the number of bytes appended) or,
\* when compressing the payload fails, returns that error and a nil slice.
C34_EnvelopeUnlessCodecFails ==
    CompressReturned =>
        /\ CopiedOrTooShort
        /\ (compressor # "noop" /\ ~wm.src.short) =>
              \/ EnvelopeAppended
              \/ /\ wm.ret.err = "compress"
                 /\ wm.ret.len = 0
                 /\ wm.ret.kept = 0

\* An envelope was appended behind three bytes of dst.
C34_Witness ==
    /\ CompressReturned
    /\ compressor = "zstd"
    /\ wm.dstLen = 3
    /\ wm.src.body = <<1, 0>>
    /\ wm.ret.err = NIL
    /\ wm.ret.message.length = 28
    /\ wm.ret.len = 31

\* Compressing the payload failed: neither dst nor an envelope is returned.
C34_WitnessCodecFails ==
    /\ CompressReturned
    /\ wm.dstLen = 3
    /\ wm.ret.err = "compress"
    /\ wm.ret.len = 0

\* A source shorter than the header, with and without a compressor.
C34_WitnessTooShort ==
    /\ CompressReturned
    /\ wm.src.short
    /\ compressor # "noop"
    /\ wm.ret.err = "tooShort"

C34_WitnessShortCopied ==
    /\ CompressReturned
    /\ wm.src.short
    /\ compressor = "noop"
    /\ wm.ret.message = wm.src

\* C35: across every execution path of one connection the socket's Close is
\* invoked at most once.
C35_SocketClosedAtMostOnce == ncCloseCount <= 1

\* C36: once a close that made the Connected -> Disconnected transition and
\* the connect it interleaved with have both returned, the connection is
\* Disconnected and the socket the dial produced, if any, has been closed.
C36_NoOpenSocketWhenDisconnected ==
    (closeTransitions > 0 /\ connectDone /\ ~ConnectInProgress) =>
        /\ state = connDisconnected
        /\ sockDialed => sockClosed

\* readWireMessage returns in this step.
ReadReturnStep == op.kind = "read" /\ op.pc = "stop" /\ op'.pc = "done"

\* C37: whenever readWireMessage returns having set the awaiting-remaining-
\* bytes marker, the connection is still Connected and its socket open, also
\* in the interleavings where the context of the read was cancelled and its
\* listener has fired before the read stopped it.
C37_MarkedImpliesConnected ==
    [][(ReadReturnStep /\ op.setMarker /\ aborted) =>
           (state' = connConnected /\ ~sockClosed')]_vars

\* C38 as stated: when the first configured name that equals an advertised
\* name is not one of snappy, zlib and zstd, no compressor is selected.
C38_UnlistedNameSelectsNone ==
    (connectRet = NIL /\ config.handshaker) =>
        \A i \in FirstShared :
            config.compressors[i] \notin ValidCompressors =>
                compressor = "noop"

\* C38: compressor selection stops at the first configured name that equals
\* an advertised name, compared exactly. The name is lower-cased only then:
\* when its lower-cased form is snappy, zlib or zstd that compressor is
\* selected, and otherwise none is, also when a later configured entry is
\* recognised and advertised.
C38_StopsAtFirstExactMatch ==
    (connectRet = NIL /\ config.handshaker) =>
        \A i \in FirstShared :
            LET m == ToLower(config.compressors[i])
            IN  /\ m \in ValidCompressors => compressor = m
                /\ m \notin ValidCompressors =>
                      /\ compressor = "noop"
                      /\ zliblevel = 0
                      /\ zstdLevel = 0

\* The first shared name is lz4; zlib, configured after it, is advertised
\* too, and nothing is selected.
C38_Witness ==
    /\ connectRet = NIL
    /\ config.compressors = <<"lz4", "zlib">>
    /\ desc.Compression = <<"lz4", "zlib">>
    /\ FirstShared = {1}
    /\ Shared(2)
    /\ compressor = "noop"

\* ZLIB is configured and zlib advertised: they differ, so the selection
\* goes on to snappy.
C38_WitnessCaseSensitive ==
    /\ connectRet = NIL
    /\ config.compressors = <<"ZLIB", "snappy">>
    /\ desc.Compression = <<"zlib", "snappy">>
    /\ compressor = "snappy"

\* ZLIB is configured and advertised: zlib is selected.
C38_WitnessLowerCased ==
    /\ connectRet = NIL
    /\ config.compressors = <<"ZLIB", "snappy">>
    /\ desc.Compression = <<"ZLIB">>
    /\ compressor = "zlib"

\* A close call returns in this step having lost the compare-and-swap for
\* the first time.
CloseLosesStep == closeLoserRet = "none" /\ closeLoserRet' # "none"

\* C39: close on a connection that is still Initialized returns nil, leaves
\* the state Initialized and changes nothing else of the connection; an
\* Initialized connection has no socket and no socket Close was attempted,
\* whatever close calls it has seen; and a connect call made while the state
\* is Initialized never returns as the loser of the transition: it makes
\* the transition to Connected and is about to dial.
C39_CloseOnInitialized ==
    /\ [](state = connInitialized =>
            /\ closeTransitions = 0
            /\ closeSockCloses = 0
            /\ ncCloseCount = 0
            /\ nc = NIL /\ ~sockDialed
            /\ closeLoserRet \in {"none", NIL}
            /\ loserRet = "none"
            /\ ~closed)
    /\ [][state = connInitialized =>
             /\ CloseLosesStep =>
                   /\ closeLoserRet' = NIL
                   /\ UNCHANGED <<config, connVars, descVars, compVars,
                                  awaitRemainingBytes, connectVars, op,
                                  listenerVars, closeTransitions,
                                  closeSockCloses>>
             /\ state' # connInitialized =>
                   /\ state' = connConnected
                   /\ casWins' = casWins + 1
                   /\ \E p \in ConnectCallers :
                         cpc[p] = "idle" /\ cpc'[p] = "dial"
         ]_vars

\* close was called on the Initialized connection and returned nil; the
\* connection is still Initialized.
C39_Witness ==
    /\ state = connInitialized
    /\ closeLoserRet = NIL
    /\ ~closed
    /\ casWins = 0

\* After such a close, a connect has made the transition and dialled.
C39_WitnessConnectAfter ==
    /\ closeLoserRet = NIL
    /\ closeTransitions = 0
    /\ state = connConnected
    /\ casWins = 1
    /\ dialCount = 1
    /\ sockDialed
    /\ ~sockClosed

\* A connect call returns in this step having won the transition.
WinnerReturnStep ==
    \E p \in ConnectCallers : cpc[p] # "idle" /\ cpc'[p] = "idle"

\* C40: wait returns only after the connect that won the
\* Initialized -> Connected transition has finished, and a waiter returns
\* eventually once it has; connectDone is closed exactly once, by the return
\* of that connect, and when the connect failed it is closed after the
\* error cleanup: at the signal, and so whenever wait returns, the state is
\* Disconnected and the socket, if the dial produced one, is closed.
C40_WaitAfterConnect ==
    /\ [](/\ \A w \in Waiters : waitPc[w] = "returned" => connectDone
          /\ connectDone =>
                /\ casWins = 1
                /\ ~ConnectInProgress
                /\ connectRet # "none"
          /\ ConnectInProgress => ~connectDone
          /\ (connectDone /\ connectRet # NIL) =>
                /\ atDoneSignal.state = connDisconnected
                /\ ~atDoneSignal.sockOpen
                /\ state = connDisconnected
                /\ sockDialed => sockClosed)
    /\ [][/\ connectDone => connectDone'
          /\ WinnerReturnStep <=> (~connectDone /\ connectDone')
         ]_vars
    /\ \A w \in Waiters :
          (waitPc[w] = "waiting" /\ connectDone) ~> (waitPc[w] = "returned")

\* wait has returned after a connect that failed in the handshake: the
\* connection is Disconnected and the socket closed.
C40_Witness ==
    /\ waitPc[1] = "returned"
    /\ connectRet = "handshake"
    /\ state = connDisconnected
    /\ sockDialed
    /\ sockClosed
    /\ closeTransitions = 0

\* A waiter is blocked while the connect is inside the handshake.
C40_WitnessBlocked ==
    /\ waitPc[1] = "waiting"
    /\ \E p \in ConnectCallers : cpc[p] = "hello"
    /\ ~connectDone

====
